---- MODULE Spec2Model ----
(***************************************************************************)
(* Ownership snapshotters of the Kanpai Panda collections.                 *)
(*                                                                         *)
(* One run of one snapshotter is modelled: the Infinity run (one chain),   *)
(* the Panda run (several chains, first chain in configuration order wins) *)
(* and the Solana Panda run (one indexer lookup per input row).  A step of *)
(* the model is what the code does between two suspension points of its    *)
(* single sequential loop: one group (batch) is looked up, joined and      *)
(* applied to finalSnapshot / tokensToRecheck.                             *)
(***************************************************************************)
EXTENDS Integers, Sequences, FiniteSets, TLC

(***************************************************************************)
(* Bounds of the model.                                                    *)
(***************************************************************************)
\* TOTAL_SUPPLY of the Infinity run (250 in the source), scaled down.  It is
\* larger than the recheck floor of 5 so that a recheck pass has two groups.
InfinitySupply == 6
\* totalSupply of the Panda run (9000 by default in the source), scaled down.
PandaSupply == 3
\* Largest number of rows of the Solana input file.
MaxRows == 3
\* Largest configured BATCH_SIZE of the batch-size specification.
MaxBatchSize == 30
\* Largest number of ids of the group of the one-group specification.
MaxGroup == 2
\* Number of concurrent getNFTOwner calls of the fetcher specification.
NumCalls == 2
\* Largest MAX_CONCURRENT of the fetcher specification.
MaxConcurrentBound == 2

(***************************************************************************)
(* Program constants.                                                      *)
(***************************************************************************)
\* for (let pass = 1; pass <= 3; pass++)
MaxPass == 3
\* Math.max(5, ...)
MinRecheckBatch == 5
\* const maxRetries = 5
maxRetries == 5

\* The configured batch sizes the runs are checked with: 2 gives several
\* groups in the initial sweep, 25 is the default.
BatchSizes == {2, 25}

Null == "null"
ZeroAddress == "0x0000000000000000000000000000000000000000"
Owners == {"0xA", "0xB"}
\* A call of contract.ownerOf either throws or returns an address.
Throw == "throw"
\* The chains of the Panda run, in configuration order (two of the seven).
ChainOrder == <<"ethereum", "arbitrum">>
ChainNames == {ChainOrder[i] : i \in 1..Len(ChainOrder)}
\* What provider.getBlockNumber() answers for a chain.
ChainHead(chainName) == IF chainName = "ethereum" THEN 100 ELSE 200
\* A snapshotBlock that is null (or 0) is falsy.
NoBlock == 0
\* What contract.ownerOf on a chain may do: throw, or answer the zero address
\* or the address of the holder on that chain.
Responses(chainName) ==
  {Throw, ZeroAddress, IF chainName = "ethereum" THEN "0xA" ELSE "0xB"}

Variants == {"infinity", "panda", "solana"}
EVM == {"infinity", "panda"}

VARIABLES
  variant,          \* which snapshotter runs
  BATCH_SIZE,       \* parseInt(process.env.BATCH_SIZE || "25")
  snapshotBlock,    \* Infinity: the block of the run
  chains,           \* Panda: chain -> [rpc, snapshotBlock]
  pc,               \* position of the run
  pass,             \* loop variable of the recheck loop
  batches,          \* batches / recheckBatches of the current sweep
  batchIdx,         \* index of the next batch
  tokensArray,      \* Array.from(tokensToRecheck) at the start of the pass
  batchSize,        \* group size of the current sweep
  finalSnapshot,    \* tokenId -> record
  tokensToRecheck,  \* the Set, in insertion order
  totalFound,       \* Infinity: counter of found tokens
  chainStats,       \* Panda: chain -> count
  csvData,          \* rows handed to the CSV writer
  validData,        \* Solana: rows with a token id
  startIdx,         \* Solana: loop variable of the batch loop (0-based)
  writes,           \* history: tokenId -> number of writes to finalSnapshot
  lookups,          \* history: number of group lookups issued
  passFound,        \* history: ids a lookup of the current sweep found an owner for
  everFound,        \* history: ids some lookup of the run found an owner for
  passesRun,        \* history: number of recheck passes entered
  blocksUsed,       \* history: chain -> the blockTags its ownerOf lookups used
  files,            \* the files of the working directory
  ownerOfCalls,     \* history: chain -> tokenId -> ownerOf calls made in the run
  passCalls,        \* history: chain -> tokenId -> ownerOf calls made in this sweep
  memberResp,       \* one group: chain -> tokenId -> what ownerOf does
  settled,          \* one group: the member lookups that have settled
  joined,           \* one group: chainResults after the join, <<>> before it
  groupCalls,       \* history: chain -> getTokenOwnerBatch calls made for the group
  maxConcurrent,    \* Solana fetcher: this.maxConcurrent
  activeRequests,   \* Solana fetcher: this.activeRequests
  inFlight,         \* history: requests sent and not yet answered
  mint,             \* call -> the mintAddress argument of getNFTOwner
  cpc,              \* call -> position of the getNFTOwner call
  attempt,          \* call -> loop variable of the retry loop
  held,             \* history: call -> slots acquired minus slots released
  tries,            \* history: call -> attempts begun
  returned,         \* call -> what getNFTOwner returned
  failure,          \* history: call -> how the last failed attempt ended
  waited,           \* history: call -> sleeps since then, in units of retryDelay
  input,            \* Solana: the input file as readCSV found it
  rowCalls,         \* history: row of validData -> getNFTOwner calls made for it
  rowWrites,        \* history: row of validData -> assignments to its OwnerWallet
  nextId,           \* loop variable i of the loop that creates the batches
  twin,             \* the two Infinity implementations run side by side
  env,              \* unified runner: which configuration values are set
  choice,           \* unified runner: the menu choice being served
  kpc,              \* unified runner: position of start()
  allResults,       \* unified runner: results of runAllSnapshotters
  running,          \* history: the snapshotters under way
  order,            \* history: the snapshotters entered for this choice, in order
  requested,        \* history: the snapshotters that sent a network request
  changed,          \* history: the snapshotters that deleted or wrote a file
  thrown            \* history: the snapshotters whose run threw

vars == <<variant, BATCH_SIZE, snapshotBlock, chains, pc, pass, batches,
          batchIdx, tokensArray, batchSize, finalSnapshot, tokensToRecheck,
          totalFound, chainStats, csvData, validData, startIdx, writes,
          lookups, passFound, everFound, passesRun, blocksUsed, files,
          ownerOfCalls, passCalls, memberResp,
          settled, joined, groupCalls, maxConcurrent, activeRequests, inFlight, mint,
          cpc, attempt, held, tries, returned, failure, waited, input, rowCalls, rowWrites, nextId, twin, env, choice, kpc, allResults,
          running, order, requested, changed, thrown>>

\* The state of the main run, of one group lookup and of the Solana fetcher.
runVars == <<variant, BATCH_SIZE, snapshotBlock, chains, pc, pass, batches,
             batchIdx, tokensArray, batchSize, finalSnapshot, tokensToRecheck,
             totalFound, chainStats, csvData, validData, startIdx, writes,
             lookups, passFound, everFound, passesRun, blocksUsed, files,
             ownerOfCalls, passCalls>>
groupVars == <<memberResp, settled, joined, groupCalls>>
callVars == <<maxConcurrent, activeRequests, inFlight, mint, cpc, attempt,
              held, tries, returned, failure, waited>>
fetchVars == <<input, rowCalls, rowWrites>>
loopVars == <<nextId, twin>>
gateVars == <<callVars, fetchVars, loopVars>>
runnerVars == <<env, choice, kpc, allResults, running, order, requested, changed,
                thrown>>

(***************************************************************************)
(* Helpers.                                                                *)
(***************************************************************************)
Range(s) == {s[i] : i \in 1..Len(s)}
Min(a, b) == IF a < b THEN a ELSE b
Max(a, b) == IF a > b THEN a ELSE b

TotalSupply(v) == IF v = "infinity" THEN InfinitySupply ELSE PandaSupply
TokenIds(v) == 1..TotalSupply(v)

\* Mutant of SetAdd: the add of a not-found id is lost.
SetAdd_Dropped(set, x) == set

\* Set.prototype.add on the insertion-ordered Set.
SetAdd(set, x) == IF x \in Range(set) THEN set ELSE Append(set, x)
\* Mutant of SetDelete: a found id is not deleted from the Set.
SetDelete_Kept(set, x) == set

\* Set.prototype.delete.
SetDelete(set, x) == SelectSeq(set, LAMBDA y : y # x)

\* Mutant of IsFound: the comparison with the zero address is missing.
IsFound_NullOnly(owner) == owner # Null /\ owner # ""

\* result.owner && result.owner !== ethers.ZeroAddress
IsFound(owner) == owner # Null /\ owner # "" /\ owner # ZeroAddress

\* The batches of the initial sweep: for (i = 1; i <= total; i += size).
RECURSIVE CreateBatches(_, _, _)
CreateBatches(i, total, size) ==
  IF i > total THEN <<>>
  ELSE <<[j \in 1..(Min(i + size - 1, total) - i + 1) |-> i + j - 1]>>
       \o CreateBatches(i + size, total, size)

\* Mutant of RecheckBatchSize: the floor of 5 is missing.
RecheckBatchSize_NoFloor(B, p) == B \div p

\* Mutant of RecheckBatchSize: the passes are counted down, so sizes grow.
RecheckBatchSize_Growing(B, p) == Max(MinRecheckBatch, B \div (MaxPass + 1 - p))

\* Math.max(5, Math.floor(BATCH_SIZE / pass))
RecheckBatchSize(B, p) == Max(MinRecheckBatch, B \div p)

\* Mutant of CreateRecheckBatches: a slice starts at the last id of the one
\* before it.
RECURSIVE CreateRecheckBatches_Overlap(_, _)
CreateRecheckBatches_Overlap(arr, size) ==
  IF arr = <<>> THEN <<>>
  ELSE IF Len(arr) <= size THEN <<arr>>
  ELSE <<SubSeq(arr, 1, size)>>
       \o CreateRecheckBatches_Overlap(SubSeq(arr, size, Len(arr)), size)

\* Mutant of CreateRecheckBatches: a last group shorter than the batch size
\* is left out.
RECURSIVE CreateRecheckBatches_DropTail(_, _)
CreateRecheckBatches_DropTail(arr, size) ==
  IF Len(arr) < size THEN <<>>
  ELSE <<SubSeq(arr, 1, size)>>
       \o CreateRecheckBatches_DropTail(SubSeq(arr, size + 1, Len(arr)), size)

\* recheckBatches: tokensArray.slice(i, i + batchSize) for i = 0, batchSize, ...
RECURSIVE CreateRecheckBatches(_, _)
CreateRecheckBatches(arr, size) ==
  IF arr = <<>> THEN <<>>
  ELSE <<SubSeq(arr, 1, Min(size, Len(arr)))>>
       \o CreateRecheckBatches(SubSeq(arr, Min(size, Len(arr)) + 1, Len(arr)), size)

\* Mutant of getTokenOwnerBatch: a throwing member is left out of the result.
getTokenOwnerBatch_DropFailed(tokenIds, resp) ==
  LET kept == SelectSeq(tokenIds, LAMBDA id : resp[id] # Throw)
  IN [i \in 1..Len(kept) |-> [tokenId |-> kept[i], owner |-> resp[kept[i]]]]

\* Mutant of getTokenOwnerBatch: one throwing member fails the whole group.
getTokenOwnerBatch_FailFast(tokenIds, resp) ==
  [i \in 1..Len(tokenIds) |->
     [tokenId |-> tokenIds[i],
      owner |-> IF \E j \in 1..Len(tokenIds) : resp[tokenIds[j]] = Throw
                THEN Null ELSE resp[tokenIds[i]]]]

\* getTokenOwnerBatch: one {tokenId, owner} per id, in order; a throwing
\* ownerOf call gives owner null.
getTokenOwnerBatch(tokenIds, resp) ==
  [i \in 1..Len(tokenIds) |->
     [tokenId |-> tokenIds[i],
      owner |-> IF resp[tokenIds[i]] = Throw THEN Null ELSE resp[tokenIds[i]]]]

(***************************************************************************)
(* Applying the results of one group.  st holds the run's mutable locals.  *)
(***************************************************************************)
\* finalSnapshot[tokenId] = record
WriteRecord(st, tokenId, record) ==
  [st EXCEPT !.finalSnapshot = (tokenId :> record) @@ @,
             !.writes = [@ EXCEPT ![tokenId] = @ + 1]]

\* Infinity, initial sweep: for (const result of results) { ... }
RECURSIVE InfinitySweepApply(_, _, _)
InfinitySweepApply(results, block, st) ==
  IF results = <<>> THEN st
  ELSE LET result == Head(results)
           next == IF IsFound(result.owner)
                   THEN [WriteRecord(st, result.tokenId,
                                     [owner |-> result.owner, block |-> block])
                           EXCEPT !.totalFound = @ + 1]
                   ELSE [st EXCEPT !.tokensToRecheck = SetAdd(@, result.tokenId)]
       IN InfinitySweepApply(Tail(results), block, next)

\* Mutant of InfinityRecheckApply: a token found in a recheck pass is not
\* counted.
RECURSIVE InfinityRecheckApply_NoCount(_, _, _)
InfinityRecheckApply_NoCount(results, block, st) ==
  IF results = <<>> THEN st
  ELSE LET result == Head(results)
           next == IF result.tokenId \notin Range(st.tokensToRecheck) THEN st
                   ELSE IF IsFound(result.owner)
                   THEN [WriteRecord(st, result.tokenId,
                                     [owner |-> result.owner, block |-> block])
                           EXCEPT !.tokensToRecheck = SetDelete(@, result.tokenId)]
                   ELSE st
       IN InfinityRecheckApply_NoCount(Tail(results), block, next)

\* Infinity, recheck pass: for (const result of results) { ... }
RECURSIVE InfinityRecheckApply(_, _, _)
InfinityRecheckApply(results, block, st) ==
  IF results = <<>> THEN st
  ELSE LET result == Head(results)
           next == IF result.tokenId \notin Range(st.tokensToRecheck) THEN st
                   ELSE IF IsFound(result.owner)
                   THEN [WriteRecord(st, result.tokenId,
                                     [owner |-> result.owner, block |-> block])
                           EXCEPT !.totalFound = @ + 1,
                                  !.tokensToRecheck = SetDelete(@, result.tokenId)]
                   ELSE st
       IN InfinityRecheckApply(Tail(results), block, next)

\* What provider.getBlockNumber() answers for a chain after t lookups of the
\* run: the chain grows while the run proceeds.
HeadAt(chainName, t) == ChainHead(chainName) + t

\* Mutant of BlockTag: the lookup asks for the latest block.
BlockTag_Latest(block, head) == head

\* contract.ownerOf(tokenId, { blockTag: snapshotBlock })
BlockTag(block, head) == block

\* Mutant of Eligible: no chain is skipped.
Eligible_Always(chainConfig) == TRUE

\* Panda: a chain is looked up only when it has a snapshot block and an RPC URL.
Eligible(chainConfig) == chainConfig.snapshotBlock # NoBlock /\ chainConfig.rpc

\* Panda: chainResults, in configuration order; null for a skipped chain.
ChainResults(cfg, tokenIds, resp) ==
  [i \in 1..Len(ChainOrder) |->
     IF Eligible(cfg[ChainOrder[i]])
     THEN [skipped |-> FALSE, chainName |-> ChainOrder[i],
           results |-> getTokenOwnerBatch(tokenIds, resp[ChainOrder[i]])]
     ELSE [skipped |-> TRUE, chainName |-> ChainOrder[i], results |-> <<>>]]

\* results.find(r => r.tokenId === tokenId)?.owner
OwnerIn(results, tokenId) ==
  LET hits == {i \in 1..Len(results) : results[i].tokenId = tokenId}
  IN IF hits = {} THEN Null
     ELSE results[CHOOSE i \in hits : \A j \in hits : i <= j].owner

\* Mutant of FirstFound: the loop does not break, so the last chain wins.
FirstFound_Last(chainResults, tokenId) ==
  LET hits == {i \in 1..Len(chainResults) :
                 /\ ~chainResults[i].skipped
                 /\ IsFound(OwnerIn(chainResults[i].results, tokenId))}
  IN IF hits = {} THEN 0 ELSE CHOOSE i \in hits : \A j \in hits : i >= j

\* Panda: the inner loop over chainResults; the index of the chain whose
\* owner is taken (the loop breaks there), 0 when no chain has one.
FirstFound(chainResults, tokenId) ==
  LET hits == {i \in 1..Len(chainResults) :
                 /\ ~chainResults[i].skipped
                 /\ IsFound(OwnerIn(chainResults[i].results, tokenId))}
  IN IF hits = {} THEN 0 ELSE CHOOSE i \in hits : \A j \in hits : i <= j

\* Panda: the record written for tokenId from chainResults[i].
PandaRecord(cfg, chainResults, i, tokenId) ==
  [owner |-> OwnerIn(chainResults[i].results, tokenId),
   chain |-> chainResults[i].chainName,
   block |-> cfg[chainResults[i].chainName].snapshotBlock]

\* Panda, initial sweep: for (const tokenId of batch) { ... }
RECURSIVE PandaSweepApply(_, _, _, _)
PandaSweepApply(batch, cfg, chainResults, st) ==
  IF batch = <<>> THEN st
  ELSE LET tokenId == Head(batch)
           i == FirstFound(chainResults, tokenId)
           next == IF i # 0
                   THEN [WriteRecord(st, tokenId,
                                     PandaRecord(cfg, chainResults, i, tokenId))
                           EXCEPT !.chainStats[chainResults[i].chainName] = @ + 1]
                   ELSE [st EXCEPT !.tokensToRecheck = SetAdd(@, tokenId)]
       IN PandaSweepApply(Tail(batch), cfg, chainResults, next)

\* Mutant of PandaRecheckApply: a token found in a recheck pass is not
\* counted for its chain.
RECURSIVE PandaRecheckApply_NoStat(_, _, _, _)
PandaRecheckApply_NoStat(batch, cfg, chainResults, st) ==
  IF batch = <<>> THEN st
  ELSE LET tokenId == Head(batch)
           i == FirstFound(chainResults, tokenId)
           next == IF tokenId \notin Range(st.tokensToRecheck) THEN st
                   ELSE IF i # 0
                   THEN [WriteRecord(st, tokenId,
                                     PandaRecord(cfg, chainResults, i, tokenId))
                           EXCEPT !.tokensToRecheck = SetDelete(@, tokenId)]
                   ELSE st
       IN PandaRecheckApply_NoStat(Tail(batch), cfg, chainResults, next)

\* Panda, recheck pass: for (const tokenId of batch) { ... }
RECURSIVE PandaRecheckApply(_, _, _, _)
PandaRecheckApply(batch, cfg, chainResults, st) ==
  IF batch = <<>> THEN st
  ELSE LET tokenId == Head(batch)
           i == FirstFound(chainResults, tokenId)
           next == IF tokenId \notin Range(st.tokensToRecheck) THEN st
                   ELSE IF i # 0
                   THEN [WriteRecord(st, tokenId,
                                     PandaRecord(cfg, chainResults, i, tokenId))
                           EXCEPT !.chainStats[chainResults[i].chainName] = @ + 1,
                                  !.tokensToRecheck = SetDelete(@, tokenId)]
                   ELSE st
       IN PandaRecheckApply(Tail(batch), cfg, chainResults, next)

(***************************************************************************)
(* The report.                                                             *)
(***************************************************************************)
\* Object.entries of an object with integer keys: ascending key order.
RECURSIVE Entries(_)
Entries(keys) ==
  IF keys = {} THEN <<>>
  ELSE LET k == CHOOSE x \in keys : \A y \in keys : x <= y
       IN <<k>> \o Entries(keys \ {k})

\* Mutant of InsertRow: the comparator is b - a.
RECURSIVE InsertRow_Descending(_, _)
InsertRow_Descending(rows, row) ==
  IF rows = <<>> THEN <<row>>
  ELSE IF row.TokenId > Head(rows).TokenId THEN <<row>> \o rows
  ELSE <<Head(rows)>> \o InsertRow_Descending(Tail(rows), row)

\* csvData.sort((a, b) => parseInt(a.TokenId) - parseInt(b.TokenId))
RECURSIVE InsertRow(_, _)
InsertRow(rows, row) ==
  IF rows = <<>> THEN <<row>>
  ELSE IF row.TokenId < Head(rows).TokenId THEN <<row>> \o rows
  ELSE <<Head(rows)>> \o InsertRow(Tail(rows), row)

RECURSIVE SortRows(_)
SortRows(rows) ==
  IF rows = <<>> THEN <<>>
  ELSE InsertRow(SortRows(SubSeq(rows, 1, Len(rows) - 1)), rows[Len(rows)])

\* Mutant of CsvRows: a placeholder row is written for every missing token.
CsvRows_WithMissing(v, snapshot) ==
  [id \in TokenIds(v) |->
     IF id \in DOMAIN snapshot
     THEN [TokenId |-> id, Owner |-> snapshot[id].owner,
           Chain |-> IF v = "infinity" THEN "ethereum" ELSE snapshot[id].chain,
           BlockNumber |-> snapshot[id].block]
     ELSE [TokenId |-> id, Owner |-> Null, Chain |-> Null, BlockNumber |-> NoBlock]]

\* One CSV row per entry of finalSnapshot.
CsvRows(v, snapshot) ==
  LET ids == Entries(DOMAIN snapshot)
  IN SortRows([i \in 1..Len(ids) |->
       [TokenId |-> ids[i],
        Owner |-> snapshot[ids[i]].owner,
        Chain |-> IF v = "infinity" THEN "ethereum" ELSE snapshot[ids[i]].chain,
        BlockNumber |-> snapshot[ids[i]].block]])

(***************************************************************************)
(* The run.                                                                *)
(***************************************************************************)
Locals == [finalSnapshot |-> finalSnapshot, tokensToRecheck |-> tokensToRecheck,
           totalFound |-> totalFound, chainStats |-> chainStats,
           writes |-> writes]

SetLocals(st) ==
  /\ finalSnapshot' = st.finalSnapshot
  /\ tokensToRecheck' = st.tokensToRecheck
  /\ totalFound' = st.totalFound
  /\ chainStats' = st.chainStats
  /\ writes' = st.writes

EligibleChains == {c \in ChainNames : Eligible(chains[c])}

\* No ownerOf call has been made.
NoCalls(v) == [c \in ChainNames |-> [id \in TokenIds(v) |-> 0]]

\* contract.ownerOf(tokenId, ...) is called once for every id of the batch
\* on every chain the batch is looked up on.
CountCalls(calls, cs, batch) ==
  [c \in ChainNames |->
     [id \in DOMAIN calls[c] |->
        IF c \in cs /\ id \in Range(batch) THEN calls[c][id] + 1 ELSE calls[c][id]]]

(***************************************************************************)
(* The output files.  A file name is kept as the parts that startsWith and *)
(* endsWith look at: its stem, the rest of the name and the extension.     *)
(***************************************************************************)
FileNamed(stem, rest, ext) == [stem |-> stem, rest |-> rest, ext |-> ext]

\* `${month}.${day}` of the day of the run.
Today == "1.2"

\* The stem of the snapshot files of a collection.
Prefix(v) ==
  CASE v = "infinity" -> "Infinity Holders"
    [] v = "panda" -> "Panda Holders"
    [] v = "solana" -> "Solana Panda Holders"

\* The working directory before the run: for every collection a snapshot of
\* an earlier day and one of today, and files that are not snapshots.
Files0 ==
  {FileNamed(Prefix(v), day, ".csv") : v \in Variants, day \in {"1.1", Today}}
    \cup {FileNamed("Infinity Holders", "notes", ".txt"),
          FileNamed("Solana Panda Earnings", "", ".csv")}

\* Mutant of OldSnapshots: the test of the prefix is missing.
OldSnapshots_AnyPrefix(fs, v) == {f \in fs : f.ext = ".csv"}

\* files.filter(file => file.startsWith(prefix) && file.endsWith('.csv'))
OldSnapshots(fs, v) == {f \in fs : f.stem = Prefix(v) /\ f.ext = ".csv"}

\* The file the run writes.
NewFile(v) == FileNamed(Prefix(v), Today, ".csv")

\* csvWriter.writeRecords(rows): the file is created, with its header, for
\* any number of rows.
WriteRecords(fs, v, rows) == fs \cup {NewFile(v)}

\* saveCSV: if (data.length === 0) return;
saveCSV(fs, v, data) == IF data = <<>> THEN fs ELSE WriteRecords(fs, v, data)

\* The ids of a group for which some looked-up chain answered an owner
\* other than the zero address.
AnsweredInfinity(batch, resp) == {id \in Range(batch) : resp[id] \in Owners}
AnsweredPanda(batch, resp) ==
  {id \in Range(batch) : \E c \in EligibleChains : resp[c][id] \in Owners}

\* Panda: what the eligible chains may answer for the ids of a group.
PandaResponses(batch) ==
  {resp \in [EligibleChains -> [Range(batch) -> UNION {Responses(c) : c \in ChainNames}]] :
     \A c \in EligibleChains : \A id \in Range(batch) : resp[c][id] \in Responses(c)}

\* No group lookup is under way.
GroupIdle ==
  /\ memberResp = <<>>
  /\ settled = {}
  /\ joined = <<>>
  /\ groupCalls = <<>>

\* Neither implementation of the Infinity run has been started.
NoTwin == <<>>

\* readCSV has not been called.
NoInput == [exists |-> FALSE, hasColumn |-> FALSE, rows |-> <<>>]

\* The Solana fetcher after construction, with no getNFTOwner call made.
GateIdle ==
  /\ maxConcurrent = 1
  /\ activeRequests = 0
  /\ inFlight = 0
  /\ mint = <<>>
  /\ cpc = <<>>
  /\ attempt = <<>>
  /\ held = <<>>
  /\ tries = <<>>
  /\ returned = <<>>
  /\ failure = <<>>
  /\ waited = <<>>
  /\ input = NoInput
  /\ rowCalls = <<>>
  /\ rowWrites = <<>>
  /\ nextId = 1
  /\ twin = NoTwin

\* The unified runner is not part of the run.
RunnerIdle ==
  /\ env = <<>>
  /\ choice = 0
  /\ kpc = "idle"
  /\ allResults = <<>>
  /\ running = {}
  /\ order = <<>>
  /\ requested = {}
  /\ changed = {}
  /\ thrown = {}

Init ==
  /\ variant \in Variants
  /\ BATCH_SIZE \in BatchSizes
  /\ snapshotBlock = NoBlock
  /\ chains \in [ChainNames -> [rpc : IF variant = "panda" THEN BOOLEAN ELSE {TRUE},
                                snapshotBlock : {NoBlock}]]
  /\ pc = "start"
  /\ pass = 0
  /\ batches = <<>>
  /\ batchIdx = 0
  /\ tokensArray = <<>>
  /\ batchSize = BATCH_SIZE
  /\ finalSnapshot = <<>>
  /\ tokensToRecheck = <<>>
  /\ totalFound = 0
  /\ chainStats = [c \in ChainNames |-> 0]
  /\ csvData = <<>>
  /\ validData = <<>>
  /\ startIdx = 0
  /\ writes = [id \in TokenIds(variant) |-> 0]
  /\ lookups = 0
  /\ passFound = {}
  /\ everFound = {}
  /\ passesRun = 0
  /\ blocksUsed = [c \in ChainNames |-> {}]
  /\ files = Files0
  /\ ownerOfCalls = NoCalls(variant)
  /\ passCalls = NoCalls(variant)
  /\ GroupIdle
  /\ GateIdle
  /\ RunnerIdle

\* main / runPandaSnapshotter: the snapshot blocks are fetched once, before
\* the sweep; a failing getBlockNumber ends the run.
GetLatestBlocks ==
  /\ pc = "start"
  /\ variant \in EVM
  /\ \E ok \in BOOLEAN :
       IF ok
       THEN /\ pc' = "create"
            /\ snapshotBlock' = IF variant = "infinity" THEN HeadAt("ethereum", lookups)
                                ELSE snapshotBlock
            /\ chains' = IF variant = "panda"
                         THEN [c \in ChainNames |->
                                 IF chains[c].rpc
                                 THEN [chains[c] EXCEPT !.snapshotBlock = HeadAt(c, lookups)]
                                 ELSE chains[c]]
                         ELSE chains
       ELSE /\ pc' = "failed"
            /\ UNCHANGED <<snapshotBlock, chains>>
  /\ UNCHANGED <<variant, BATCH_SIZE, pass, batches, batchIdx, tokensArray,
                 batchSize, finalSnapshot, tokensToRecheck, totalFound,
                 chainStats, csvData, validData, startIdx, writes, lookups,
                 passFound, everFound, passesRun>>
  /\ UNCHANGED <<blocksUsed, files, ownerOfCalls, passCalls, groupVars, gateVars,
                 runnerVars>>

\* snapshotNFTs, up to the first batch: the batches of the initial sweep.
CreateSweep ==
  /\ pc = "create"
  /\ batches' = CreateBatches(1, TotalSupply(variant), BATCH_SIZE)
  /\ batchIdx' = 1
  /\ pass' = 0
  /\ pc' = IF batches' = <<>> THEN "passEnd" ELSE "sweep"
  /\ UNCHANGED <<variant, BATCH_SIZE, snapshotBlock, chains, tokensArray,
                 batchSize, finalSnapshot, tokensToRecheck, totalFound,
                 chainStats, csvData, validData, startIdx, writes, lookups,
                 passFound, everFound, passesRun>>
  /\ UNCHANGED <<blocksUsed, files, ownerOfCalls, passCalls, groupVars, gateVars,
                 runnerVars>>

\* What every group step does to the loop position: the next batch,
\* or the end of the sweep.
AfterBatch ==
  IF batchIdx < Len(batches)
  THEN /\ batchIdx' = batchIdx + 1
       /\ UNCHANGED <<pc, batches>>
  ELSE /\ batchIdx' = 0
       /\ batches' = <<>>
       /\ pc' = "passEnd"

\* Infinity, one batch of the initial sweep.
InfinityProcessBatch ==
  /\ pc = "sweep"
  /\ variant = "infinity"
  /\ LET batch == batches[batchIdx]
     IN \E resp \in [Range(batch) -> Responses("ethereum")] :
          /\ SetLocals(InfinitySweepApply(getTokenOwnerBatch(batch, resp),
                                          snapshotBlock, Locals))
          /\ passFound' = passFound \cup AnsweredInfinity(batch, resp)
          /\ everFound' = everFound \cup AnsweredInfinity(batch, resp)
  /\ lookups' = lookups + 1
  /\ blocksUsed' = [blocksUsed EXCEPT !["ethereum"] =
                     @ \cup {BlockTag(snapshotBlock, HeadAt("ethereum", lookups))}]
  /\ ownerOfCalls' = CountCalls(ownerOfCalls, {"ethereum"}, batches[batchIdx])
  /\ passCalls' = CountCalls(passCalls, {"ethereum"}, batches[batchIdx])
  /\ AfterBatch
  /\ UNCHANGED <<variant, BATCH_SIZE, snapshotBlock, chains, pass, tokensArray,
                 batchSize, csvData, validData, startIdx, passesRun>>
  /\ UNCHANGED <<files, groupVars, gateVars, runnerVars>>

\* Panda, one batch of the initial sweep, looked up on every eligible chain.
PandaProcessBatch ==
  /\ pc = "sweep"
  /\ variant = "panda"
  /\ LET batch == batches[batchIdx]
     IN \E resp \in PandaResponses(batch) :
          /\ SetLocals(PandaSweepApply(batch, chains,
                                       ChainResults(chains, batch, resp), Locals))
          /\ passFound' = passFound \cup AnsweredPanda(batch, resp)
          /\ everFound' = everFound \cup AnsweredPanda(batch, resp)
  /\ lookups' = lookups + Cardinality(EligibleChains)
  /\ blocksUsed' = [c \in ChainNames |->
                     IF c \in EligibleChains
                     THEN blocksUsed[c] \cup {BlockTag(chains[c].snapshotBlock,
                                                       HeadAt(c, lookups))}
                     ELSE blocksUsed[c]]
  /\ ownerOfCalls' = CountCalls(ownerOfCalls, EligibleChains, batches[batchIdx])
  /\ passCalls' = CountCalls(passCalls, EligibleChains, batches[batchIdx])
  /\ AfterBatch
  /\ UNCHANGED <<variant, BATCH_SIZE, snapshotBlock, chains, pass, tokensArray,
                 batchSize, csvData, validData, startIdx, passesRun>>
  /\ UNCHANGED <<files, groupVars, gateVars, runnerVars>>

\* Mutant of EndPass: the copy taken at the start of the pass is written
\* back to the Set.
EndPass_Restore ==
  /\ pc = "passEnd"
  /\ pass' = pass + 1
  /\ tokensArray' = <<>>
  /\ passFound' = {}
  /\ pc' = "recheck"
  /\ tokensToRecheck' = IF pass = 0 THEN tokensToRecheck ELSE tokensArray
  /\ UNCHANGED <<variant, BATCH_SIZE, snapshotBlock, chains, batches, batchIdx,
                 batchSize, finalSnapshot, totalFound, chainStats, csvData,
                 validData, startIdx, writes, lookups, everFound, passesRun>>
  /\ UNCHANGED <<blocksUsed, files, ownerOfCalls, passCalls, groupVars, gateVars,
                 runnerVars>>

\* The end of a sweep: the locals of the pass go out of scope, pass++.
EndPass ==
  /\ pc = "passEnd"
  /\ pass' = pass + 1
  /\ tokensArray' = <<>>
  /\ passFound' = {}
  /\ pc' = "recheck"
  /\ UNCHANGED <<variant, BATCH_SIZE, snapshotBlock, chains, batches, batchIdx,
                 batchSize, finalSnapshot, tokensToRecheck, totalFound,
                 chainStats, csvData, validData, startIdx, writes, lookups,
                 everFound, passesRun>>
  /\ UNCHANGED <<blocksUsed, files, ownerOfCalls, passCalls, groupVars, gateVars,
                 runnerVars>>

\* Mutant of EntersPass: the loop runs to pass 4.
EntersPass_FourPasses(p, recheck) == p <= MaxPass + 1 /\ recheck # <<>>

\* Mutant of EntersPass: the tests of an empty Set are missing.
EntersPass_NoEmptyCheck(p, recheck) == p <= MaxPass

\* The head of the recheck loop: if (tokensToRecheck.size > 0),
\* for (pass = 1; pass <= 3; pass++), if (tokensToRecheck.size === 0) break.
EntersPass(p, recheck) == p <= MaxPass /\ recheck # <<>>

BeginPass ==
  /\ pc = "recheck"
  /\ IF EntersPass(pass, tokensToRecheck)
     THEN /\ tokensArray' = tokensToRecheck
          /\ batchSize' = RecheckBatchSize(BATCH_SIZE, pass)
          /\ batches' = CreateRecheckBatches(tokensArray', batchSize')
          /\ batchIdx' = 1
          /\ passesRun' = passesRun + 1
          /\ passCalls' = NoCalls(variant)
          /\ pc' = "recheckBatch"
     ELSE /\ pc' = "output"
          /\ UNCHANGED <<tokensArray, batchSize, batches, batchIdx, passesRun,
                         passCalls>>
  /\ UNCHANGED <<variant, BATCH_SIZE, snapshotBlock, chains, pass, finalSnapshot,
                 tokensToRecheck, totalFound, chainStats, csvData, validData,
                 startIdx, writes, lookups, passFound, everFound>>
  /\ UNCHANGED <<blocksUsed, files, ownerOfCalls, groupVars, gateVars,
                 runnerVars>>

\* Infinity, one batch of a recheck pass.  getTokenOwnerBatch catches inside
\* every member and so never rejects: the while (attempts > 0) loop makes one
\* call per batch and results is never null.
InfinityProcessRecheckBatch ==
  /\ pc = "recheckBatch"
  /\ variant = "infinity"
  /\ LET batch == batches[batchIdx]
     IN \E resp \in [Range(batch) -> Responses("ethereum")] :
          /\ SetLocals(InfinityRecheckApply(getTokenOwnerBatch(batch, resp),
                                            snapshotBlock, Locals))
          /\ passFound' = passFound \cup AnsweredInfinity(batch, resp)
          /\ everFound' = everFound \cup AnsweredInfinity(batch, resp)
  /\ lookups' = lookups + 1
  /\ blocksUsed' = [blocksUsed EXCEPT !["ethereum"] =
                     @ \cup {BlockTag(snapshotBlock, HeadAt("ethereum", lookups))}]
  /\ ownerOfCalls' = CountCalls(ownerOfCalls, {"ethereum"}, batches[batchIdx])
  /\ passCalls' = CountCalls(passCalls, {"ethereum"}, batches[batchIdx])
  /\ AfterBatch
  /\ UNCHANGED <<variant, BATCH_SIZE, snapshotBlock, chains, pass, tokensArray,
                 batchSize, csvData, validData, startIdx, passesRun>>
  /\ UNCHANGED <<files, groupVars, gateVars, runnerVars>>

\* Panda, one batch of a recheck pass.
PandaProcessRecheckBatch ==
  /\ pc = "recheckBatch"
  /\ variant = "panda"
  /\ LET batch == batches[batchIdx]
     IN \E resp \in PandaResponses(batch) :
          /\ SetLocals(PandaRecheckApply(batch, chains,
                                         ChainResults(chains, batch, resp), Locals))
          /\ passFound' = passFound \cup AnsweredPanda(batch, resp)
          /\ everFound' = everFound \cup AnsweredPanda(batch, resp)
  /\ lookups' = lookups + Cardinality(EligibleChains)
  /\ blocksUsed' = [c \in ChainNames |->
                     IF c \in EligibleChains
                     THEN blocksUsed[c] \cup {BlockTag(chains[c].snapshotBlock,
                                                       HeadAt(c, lookups))}
                     ELSE blocksUsed[c]]
  /\ ownerOfCalls' = CountCalls(ownerOfCalls, EligibleChains, batches[batchIdx])
  /\ passCalls' = CountCalls(passCalls, EligibleChains, batches[batchIdx])
  /\ AfterBatch
  /\ UNCHANGED <<variant, BATCH_SIZE, snapshotBlock, chains, pass, tokensArray,
                 batchSize, csvData, validData, startIdx, passesRun>>
  /\ UNCHANGED <<files, groupVars, gateVars, runnerVars>>

\* The report of an EVM run: the rows of finalSnapshot, sorted by token id.
GenerateOutput ==
  /\ pc = "output"
  /\ variant \in EVM
  /\ csvData' = CsvRows(variant, finalSnapshot)
  /\ files' = WriteRecords(files \ OldSnapshots(files, variant), variant, csvData')
  /\ pc' = "done"
  /\ UNCHANGED <<variant, BATCH_SIZE, snapshotBlock, chains, pass, batches,
                 batchIdx, tokensArray, batchSize, finalSnapshot,
                 tokensToRecheck, totalFound, chainStats, validData, startIdx,
                 writes, lookups, passFound, everFound, passesRun>>
  /\ UNCHANGED <<blocksUsed, ownerOfCalls, passCalls, groupVars, gateVars,
                 runnerVars>>

(***************************************************************************)
(* The Solana Panda run.                                                   *)
(***************************************************************************)
\* The SolanaTokenId column of an input row: blank, or a mint address.
MintValues == {"", "mint"}

\* The input files of a run: the file may be missing, may have no rows, and
\* its header may lack the SolanaTokenId column, in which case the column
\* reads as blank in every row.  A file with rows has MaxRows of them, any
\* of which may have a blank token id.
Inputs ==
  UNION {[exists : BOOLEAN, hasColumn : BOOLEAN,
          rows : [1..n -> [IntTokenId : 1..n, SolanaTokenId : MintValues]]]
           : n \in {0, MaxRows}}
InputFiles ==
  {f \in Inputs :
     /\ \A i \in 1..Len(f.rows) : f.rows[i].IntTokenId = i
     /\ ~f.exists => f.rows = <<>> /\ f.hasColumn
     /\ f.rows = <<>> => f.hasColumn
     /\ ~f.hasColumn => \A i \in 1..Len(f.rows) : f.rows[i].SolanaTokenId = ""}

\* Mutant of ReadFails: the header is not checked.
ReadFails_NoColumnCheck(f) == ~f.exists \/ f.rows = <<>>

\* readCSV rejects when the file does not exist; processEarningsCSV throws
\* when there is no row and when the first row has no SolanaTokenId key.
ReadFails(f) == ~f.exists \/ f.rows = <<>> \/ ~f.hasColumn
\* What getNFTOwner returns: the owner, or null when every attempt failed.
getNFTOwnerReturns == {Null} \cup Owners

\* data.filter(row => row.SolanaTokenId && row.SolanaTokenId.trim() !== ''),
\* then row.OwnerWallet = null for each row.
ValidRows(data) ==
  LET kept == SelectSeq(data, LAMBDA row : row.SolanaTokenId # "")
  IN [i \in 1..Len(kept) |->
        [IntTokenId |-> kept[i].IntTokenId,
         SolanaTokenId |-> kept[i].SolanaTokenId,
         OwnerWallet |-> Null]]

\* processEarningsCSV, up to the batch loop: an empty file is an error.
ReadCSV ==
  /\ pc = "start"
  /\ variant = "solana"
  /\ \E f \in InputFiles :
       /\ input' = f
       /\ IF ReadFails(f)
          THEN pc' = "failed" /\ validData' = validData
          ELSE pc' = "rows" /\ validData' = ValidRows(f.rows)
  /\ rowCalls' = [i \in 1..Len(validData') |-> 0]
  /\ rowWrites' = [i \in 1..Len(validData') |-> 0]
  /\ startIdx' = 0
  /\ UNCHANGED <<variant, BATCH_SIZE, snapshotBlock, chains, pass, batches,
                 batchIdx, tokensArray, batchSize, finalSnapshot,
                 tokensToRecheck, totalFound, chainStats, csvData, writes,
                 lookups, passFound, everFound, passesRun>>
  /\ UNCHANGED <<blocksUsed, files, ownerOfCalls, passCalls, groupVars, callVars, loopVars,
                 runnerVars>>

\* One batch of rows: getNFTOwner for every row, joined, then the next batch.
\* One more for each row of validData.slice(startIdx, endIdx).
CountRows(counts, start, end) ==
  [i \in DOMAIN counts |-> IF i \in (start + 1)..end THEN counts[i] + 1 ELSE counts[i]]

\* Mutant of NextStart: the next batch starts at the last row of this one.
NextStart_Overlap(start, size) == IF size > 1 THEN start + size - 1 ELSE start + size

\* startIdx += BATCH_SIZE
NextStart(start, size) == start + size

SolanaProcessBatch ==
  /\ pc = "rows"
  /\ variant = "solana"
  /\ startIdx < Len(validData)
  /\ LET endIdx == Min(startIdx + BATCH_SIZE, Len(validData))
     IN \E owner \in [(startIdx + 1)..endIdx -> getNFTOwnerReturns] :
          validData' = [i \in 1..Len(validData) |->
                          IF i \in (startIdx + 1)..endIdx
                          THEN [validData[i] EXCEPT !.OwnerWallet = owner[i]]
                          ELSE validData[i]]
  /\ rowCalls' = CountRows(rowCalls, startIdx, Min(startIdx + BATCH_SIZE, Len(validData)))
  /\ rowWrites' = CountRows(rowWrites, startIdx, Min(startIdx + BATCH_SIZE, Len(validData)))
  /\ startIdx' = NextStart(startIdx, BATCH_SIZE)
  /\ lookups' = lookups + 1
  /\ UNCHANGED <<variant, BATCH_SIZE, snapshotBlock, chains, pc, pass, batches,
                 batchIdx, tokensArray, batchSize, finalSnapshot,
                 tokensToRecheck, totalFound, chainStats, csvData, writes,
                 passFound, everFound, passesRun>>
  /\ UNCHANGED <<blocksUsed, files, ownerOfCalls, passCalls, groupVars, callVars, loopVars, input,
                 runnerVars>>

\* saveCSV(validData, outputFile): every row of validData is written.
SolanaRows(data) == data

SolanaGenerateOutput ==
  /\ pc = "rows"
  /\ variant = "solana"
  /\ startIdx >= Len(validData)
  /\ csvData' = SolanaRows(validData)
  /\ files' = saveCSV(files \ OldSnapshots(files, variant), variant, csvData')
  /\ pc' = "done"
  /\ UNCHANGED <<variant, BATCH_SIZE, snapshotBlock, chains, pass, batches,
                 batchIdx, tokensArray, batchSize, finalSnapshot,
                 tokensToRecheck, totalFound, chainStats, validData, startIdx,
                 writes, lookups, passFound, everFound, passesRun>>
  /\ UNCHANGED <<blocksUsed, ownerOfCalls, passCalls, groupVars, gateVars,
                 runnerVars>>

Next ==
  \/ GetLatestBlocks
  \/ CreateSweep
  \/ InfinityProcessBatch
  \/ PandaProcessBatch
  \/ EndPass
  \/ BeginPass
  \/ InfinityProcessRecheckBatch
  \/ PandaProcessRecheckBatch
  \/ GenerateOutput
  \/ ReadCSV
  \/ SolanaProcessBatch
  \/ SolanaGenerateOutput

Spec == Init /\ [][Next]_vars

(***************************************************************************)
(* The EVM run with the loop that creates the batches of the initial       *)
(* sweep taken one iteration at a time, for the values BATCH_SIZE can be   *)
(* configured to.                                                          *)
(***************************************************************************)
\* process.env.BATCH_SIZE: not set, or one of these strings.
EnvBatchSizes == {"", "0", "2", "25"}

\* parseInt of a string of decimal digits.
parseInt(str) ==
  CASE str = "0" -> 0
    [] str = "2" -> 2
    [] str = "25" -> 25

\* parseInt(process.env.BATCH_SIZE || "25")
ConfiguredBatchSize(e) == parseInt(IF e = "" THEN "25" ELSE e)

LoopInit ==
  /\ variant \in EVM
  /\ BATCH_SIZE \in {ConfiguredBatchSize(e) : e \in EnvBatchSizes}
  /\ snapshotBlock = NoBlock
  /\ chains \in [ChainNames -> [rpc : IF variant = "panda" THEN BOOLEAN ELSE {TRUE},
                                snapshotBlock : {NoBlock}]]
  /\ pc = "start"
  /\ pass = 0
  /\ batches = <<>>
  /\ batchIdx = 0
  /\ tokensArray = <<>>
  /\ batchSize = BATCH_SIZE
  /\ finalSnapshot = <<>>
  /\ tokensToRecheck = <<>>
  /\ totalFound = 0
  /\ chainStats = [c \in ChainNames |-> 0]
  /\ csvData = <<>>
  /\ validData = <<>>
  /\ startIdx = 0
  /\ writes = [id \in TokenIds(variant) |-> 0]
  /\ lookups = 0
  /\ passFound = {}
  /\ everFound = {}
  /\ passesRun = 0
  /\ blocksUsed = [c \in ChainNames |-> {}]
  /\ files = Files0
  /\ ownerOfCalls = NoCalls(variant)
  /\ passCalls = NoCalls(variant)
  /\ GroupIdle
  /\ GateIdle
  /\ RunnerIdle

\* for (let i = 1; i <= TOTAL_SUPPLY; i += BATCH_SIZE) { ... batches.push(batch) }:
\* one iteration.  The inner loop fills the batch with the ids i + j for
\* j < BATCH_SIZE and i + j <= TOTAL_SUPPLY.  Only a loop that does not
\* advance pushes more batches than there are ids; the model follows it
\* for TOTAL_SUPPLY + 1 batches.
PushBatch ==
  /\ pc = "create"
  /\ nextId <= TotalSupply(variant)
  /\ Len(batches) <= TotalSupply(variant)
  /\ batches' = Append(batches,
                       [j \in 1..(Min(nextId + BATCH_SIZE - 1, TotalSupply(variant))
                                    - nextId + 1) |-> nextId + j - 1])
  /\ nextId' = nextId + BATCH_SIZE
  /\ UNCHANGED <<variant, BATCH_SIZE, snapshotBlock, chains, pc, pass, batchIdx,
                 tokensArray, batchSize, finalSnapshot, tokensToRecheck,
                 totalFound, chainStats, csvData, validData, startIdx, writes,
                 lookups, passFound, everFound, passesRun>>
  /\ UNCHANGED <<blocksUsed, files, ownerOfCalls, passCalls, groupVars, callVars,
                 fetchVars, twin, runnerVars>>

\* The loop condition i <= TOTAL_SUPPLY is false: the sweep begins.
EndCreate ==
  /\ pc = "create"
  /\ ~(nextId <= TotalSupply(variant))
  /\ batchIdx' = 1
  /\ pass' = 0
  /\ pc' = IF batches = <<>> THEN "passEnd" ELSE "sweep"
  /\ UNCHANGED <<variant, BATCH_SIZE, snapshotBlock, chains, batches, tokensArray,
                 batchSize, finalSnapshot, tokensToRecheck, totalFound,
                 chainStats, csvData, validData, startIdx, writes, lookups,
                 passFound, everFound, passesRun>>
  /\ UNCHANGED <<blocksUsed, files, ownerOfCalls, passCalls, groupVars, gateVars,
                 runnerVars>>

LoopNext ==
  \/ GetLatestBlocks
  \/ PushBatch
  \/ EndCreate
  \/ InfinityProcessBatch
  \/ PandaProcessBatch
  \/ EndPass
  \/ BeginPass
  \/ InfinityProcessRecheckBatch
  \/ PandaProcessRecheckBatch
  \/ GenerateOutput

LoopSpec == LoopInit /\ [][LoopNext]_vars

\* Where the run stands: the step it is at and the batch it is working on.
position == <<pc, batchIdx>>

\* A batch or the report that is in progress comes to its end: the run
\* moves on to the next batch or to the next step.
FinishStep ==
  /\ pc \in {"sweep", "recheckBatch", "output"}
  /\ \E p \in {"sweep", "recheckBatch", "passEnd", "done"},
        b \in 0..(InfinitySupply + 2) :
       /\ pc' = p
       /\ batchIdx' = b
       /\ <<p, b>> # position

\* The run is one thread of awaits: the synchronous steps are taken as soon
\* as they can be, and since every ownerOf call succeeds or fails in the
\* end, the Promise.all of a batch settles and the batch is finished.
LoopFairSpec ==
  /\ LoopSpec
  /\ WF_vars(GetLatestBlocks \/ PushBatch \/ EndCreate \/ EndPass \/ BeginPass)
  /\ WF_position(FinishStep)

(***************************************************************************)
(* The two implementations of the Infinity run side by side: snapshotNFTs  *)
(* of infinitysnapshotter.js and InfinitySnapshotter.snapshotNFTs of the   *)
(* unified runner, started with the same block and batch size and given    *)
(* the same outcome for every ownerOf call.  Each side is a record of its  *)
(* locals, the groups it has still to look up in its pass (batches) and    *)
(* the groups it has looked up so far (issued).                            *)
(***************************************************************************)
\* The locals of a run at its start.
NewSide(groups) ==
  [phase |-> "sweep", pass |-> 0, batches |-> groups, issued |-> <<>>,
   finalSnapshot |-> <<>>, tokensToRecheck |-> <<>>, totalFound |-> 0,
   writes |-> [id \in TokenIds("infinity") |-> 0]]

\* Standalone: the head of the recheck loop for pass p, and the end of the
\* run when the loop is not entered or is left.
SnapshotEnterPass(s, p, B) ==
  IF EntersPass(p, s.tokensToRecheck)
  THEN [s EXCEPT !.phase = "recheck", !.pass = p,
                 !.batches = CreateRecheckBatches(s.tokensToRecheck,
                                                  RecheckBatchSize(B, p))]
  ELSE [s EXCEPT !.phase = "done", !.batches = <<>>]

\* Standalone: the run up to its next group lookup.
SnapshotAdvance(s, B) ==
  IF s.batches # <<>> THEN s ELSE SnapshotEnterPass(s, s.pass + 1, B)

\* Standalone: snapshotNFTs(snapshotBlock) up to its first group lookup.
SnapshotBegin(B) ==
  SnapshotAdvance(NewSide(CreateBatches(1, TotalSupply("infinity"), B)), B)

\* Standalone: one getTokenOwnerBatch call and the loop over its results.
SnapshotLookup(s, block, resp, B) ==
  LET batch == Head(s.batches)
      results == getTokenOwnerBatch(batch, resp)
      applied == IF s.phase = "sweep"
                 THEN InfinitySweepApply(results, block, s)
                 ELSE InfinityRecheckApply(results, block, s)
  IN SnapshotAdvance([applied EXCEPT !.batches = Tail(s.batches),
                                     !.issued = Append(s.issued, batch)], B)

\* Unified: for (let i = 1; i <= this.totalSupply; i += this.batchSize) with
\* the inner loop j < this.batchSize && i + j <= this.totalSupply.
RECURSIVE UnifiedCreateBatches(_, _, _)
UnifiedCreateBatches(i, totalSupply, size) ==
  IF ~(i <= totalSupply) THEN <<>>
  ELSE LET last == IF i + size - 1 <= totalSupply THEN i + size - 1 ELSE totalSupply
       IN <<[k \in 1..(last - i + 1) |-> i + (k - 1)]>>
          \o UnifiedCreateBatches(i + size, totalSupply, size)

\* Unified: this.getTokenOwnerBatch: the catch of a member returns owner null.
UnifiedGetTokenOwnerBatch(tokenIds, resp) ==
  [i \in DOMAIN tokenIds |->
     IF resp[tokenIds[i]] = Throw
     THEN [tokenId |-> tokenIds[i], owner |-> Null]
     ELSE [tokenId |-> tokenIds[i], owner |-> resp[tokenIds[i]]]]

\* Mutant of UnifiedRecheckBatchSize: the floor of 5 is missing.
UnifiedRecheckBatchSize_NoFloor(size, p) == size \div p

\* Unified: Math.max(5, Math.floor(this.batchSize / pass))
UnifiedRecheckBatchSize(size, p) ==
  IF size \div p > 5 THEN size \div p ELSE 5

\* Unified: tokensArray.slice(i, i + batchSize) for i = 0, batchSize, ...
RECURSIVE UnifiedRecheckBatches(_, _, _)
UnifiedRecheckBatches(tokens, i, size) ==
  IF ~(i < Len(tokens)) THEN <<>>
  ELSE <<SubSeq(tokens, i + 1, IF i + size < Len(tokens) THEN i + size ELSE Len(tokens))>>
       \o UnifiedRecheckBatches(tokens, i + size, size)

\* Unified: the loop over the results of a group of the initial sweep.
RECURSIVE UnifiedSweepApply(_, _, _)
UnifiedSweepApply(results, block, s) ==
  IF results = <<>> THEN s
  ELSE LET result == Head(results)
       IN UnifiedSweepApply(Tail(results), block,
            IF result.owner # Null /\ result.owner # "" /\ result.owner # ZeroAddress
            THEN [s EXCEPT !.finalSnapshot =
                             (result.tokenId :> [owner |-> result.owner, block |-> block]) @@ @,
                           !.writes[result.tokenId] = @ + 1,
                           !.totalFound = @ + 1]
            ELSE [s EXCEPT !.tokensToRecheck =
                             IF \E k \in DOMAIN @ : @[k] = result.tokenId
                             THEN @ ELSE Append(@, result.tokenId)])

\* Unified: the loop over the results of a group of a recheck pass.
RECURSIVE UnifiedRecheckApply(_, _, _)
UnifiedRecheckApply(results, block, s) ==
  IF results = <<>> THEN s
  ELSE LET result == Head(results)
           has == \E k \in DOMAIN s.tokensToRecheck :
                     s.tokensToRecheck[k] = result.tokenId
       IN UnifiedRecheckApply(Tail(results), block,
            IF ~has THEN s
            ELSE IF result.owner # Null /\ result.owner # "" /\ result.owner # ZeroAddress
            THEN [s EXCEPT !.finalSnapshot =
                             (result.tokenId :> [owner |-> result.owner, block |-> block]) @@ @,
                           !.writes[result.tokenId] = @ + 1,
                           !.totalFound = @ + 1,
                           !.tokensToRecheck =
                             SelectSeq(@, LAMBDA t : t # result.tokenId)]
            ELSE s)

\* Unified: if (tokensToRecheck.size > 0) for (pass = 1; pass <= 3; pass++)
\* { if (tokensToRecheck.size === 0) break; ... }, then generateOutput.
UnifiedEnterPass(s, p, size) ==
  IF p <= 3 /\ Len(s.tokensToRecheck) > 0
  THEN [s EXCEPT !.phase = "recheck", !.pass = p,
                 !.batches = UnifiedRecheckBatches(s.tokensToRecheck, 0,
                                                   UnifiedRecheckBatchSize(size, p))]
  ELSE [s EXCEPT !.phase = "done", !.batches = <<>>]

\* Unified: the run up to its next group lookup.
UnifiedAdvance(s, size) ==
  IF Len(s.batches) > 0 THEN s ELSE UnifiedEnterPass(s, s.pass + 1, size)

\* Unified: InfinitySnapshotter.snapshotNFTs(snapshotBlock) up to its first
\* group lookup; this.totalSupply is CONTRACTS.infinity.totalSupply and
\* this.batchSize is BATCH_SIZE.
UnifiedBegin(size) ==
  UnifiedAdvance(NewSide(UnifiedCreateBatches(1, TotalSupply("infinity"), size)), size)

\* Unified: one this.getTokenOwnerBatch call and the loop over its results.
UnifiedLookup(s, block, resp, size) ==
  LET batch == s.batches[1]
      results == UnifiedGetTokenOwnerBatch(batch, resp)
      applied == IF s.phase = "sweep"
                 THEN UnifiedSweepApply(results, block, s)
                 ELSE UnifiedRecheckApply(results, block, s)
  IN UnifiedAdvance([applied EXCEPT !.batches = Tail(s.batches),
                                    !.issued = Append(s.issued, batch)], size)

\* Both runs are given the block of the snapshot and the same batch size.
TwinInit ==
  /\ variant = "infinity"
  /\ BATCH_SIZE \in BatchSizes
  /\ snapshotBlock = ChainHead("ethereum")
  /\ chains = [c \in ChainNames |-> [rpc |-> TRUE, snapshotBlock |-> NoBlock]]
  /\ pc = "start"
  /\ pass = 0
  /\ batches = <<>>
  /\ batchIdx = 0
  /\ tokensArray = <<>>
  /\ batchSize = BATCH_SIZE
  /\ finalSnapshot = <<>>
  /\ tokensToRecheck = <<>>
  /\ totalFound = 0
  /\ chainStats = [c \in ChainNames |-> 0]
  /\ csvData = <<>>
  /\ validData = <<>>
  /\ startIdx = 0
  /\ writes = [id \in TokenIds(variant) |-> 0]
  /\ lookups = 0
  /\ passFound = {}
  /\ everFound = {}
  /\ passesRun = 0
  /\ blocksUsed = [c \in ChainNames |-> {}]
  /\ files = Files0
  /\ ownerOfCalls = NoCalls(variant)
  /\ passCalls = NoCalls(variant)
  /\ GroupIdle
  /\ GateIdle
  /\ RunnerIdle

\* snapshotNFTs(snapshotBlock) is called on both implementations.
TwinBegin ==
  /\ pc = "start"
  /\ twin = NoTwin
  /\ twin' = [standalone |-> SnapshotBegin(BATCH_SIZE),
              unified |-> UnifiedBegin(BATCH_SIZE)]
  /\ pc' = "twin"
  /\ UNCHANGED <<variant, BATCH_SIZE, snapshotBlock, chains, pass, batches,
                 batchIdx, tokensArray, batchSize, finalSnapshot,
                 tokensToRecheck, totalFound, chainStats, csvData, validData,
                 startIdx, writes, lookups, passFound, everFound, passesRun>>
  /\ UNCHANGED <<blocksUsed, files, ownerOfCalls, passCalls, groupVars, callVars,
                 fetchVars, nextId, runnerVars>>

\* The token ids of the group a side looks up next.
NextIds(s) == IF s.phase = "done" THEN {} ELSE Range(s.batches[1])

\* The next group lookup of each implementation that has one; resp is the
\* outcome of ownerOf in this round for every token id that is looked up,
\* the same for both.
TwinLookup ==
  /\ pc = "twin"
  /\ twin.standalone.phase # "done" \/ twin.unified.phase # "done"
  /\ \E resp \in [NextIds(twin.standalone) \cup NextIds(twin.unified)
                    -> Responses("ethereum")] :
       twin' = [standalone |->
                  IF twin.standalone.phase = "done" THEN twin.standalone
                  ELSE SnapshotLookup(twin.standalone, snapshotBlock, resp, BATCH_SIZE),
                unified |->
                  IF twin.unified.phase = "done" THEN twin.unified
                  ELSE UnifiedLookup(twin.unified, snapshotBlock, resp, BATCH_SIZE)]
  /\ UNCHANGED <<variant, BATCH_SIZE, snapshotBlock, chains, pc, pass, batches,
                 batchIdx, tokensArray, batchSize, finalSnapshot,
                 tokensToRecheck, totalFound, chainStats, csvData, validData,
                 startIdx, writes, lookups, passFound, everFound, passesRun>>
  /\ UNCHANGED <<blocksUsed, files, ownerOfCalls, passCalls, groupVars, callVars,
                 fetchVars, nextId, runnerVars>>

TwinNext == TwinBegin \/ TwinLookup

TwinSpec == TwinInit /\ [][TwinNext]_vars

(***************************************************************************)
(* The batch-size law on its own: the group size of the initial sweep and  *)
(* of the recheck passes 1..3, for every configured BATCH_SIZE up to       *)
(* MaxBatchSize.                                                           *)
(***************************************************************************)
SizeInit ==
  /\ variant = "infinity"
  /\ BATCH_SIZE \in 1..MaxBatchSize
  /\ snapshotBlock = NoBlock
  /\ chains = [c \in ChainNames |-> [rpc |-> TRUE, snapshotBlock |-> NoBlock]]
  /\ pc = "sizes"
  /\ pass = 0
  /\ batches = <<>>
  /\ batchIdx = 0
  /\ tokensArray = <<>>
  /\ batchSize = BATCH_SIZE
  /\ finalSnapshot = <<>>
  /\ tokensToRecheck = <<>>
  /\ totalFound = 0
  /\ chainStats = [c \in ChainNames |-> 0]
  /\ csvData = <<>>
  /\ validData = <<>>
  /\ startIdx = 0
  /\ writes = [id \in TokenIds(variant) |-> 0]
  /\ lookups = 0
  /\ passFound = {}
  /\ everFound = {}
  /\ passesRun = 0
  /\ blocksUsed = [c \in ChainNames |-> {}]
  /\ files = Files0
  /\ ownerOfCalls = NoCalls(variant)
  /\ passCalls = NoCalls(variant)
  /\ GroupIdle
  /\ GateIdle
  /\ RunnerIdle

\* const batchSize = Math.max(5, Math.floor(BATCH_SIZE / pass)) of the next pass.
NextPassSize ==
  /\ pc = "sizes"
  /\ pass < MaxPass
  /\ pass' = pass + 1
  /\ batchSize' = RecheckBatchSize(BATCH_SIZE, pass')
  /\ UNCHANGED <<variant, BATCH_SIZE, snapshotBlock, chains, pc, batches,
                 batchIdx, tokensArray, finalSnapshot, tokensToRecheck,
                 totalFound, chainStats, csvData, validData, startIdx, writes,
                 lookups, passFound, everFound, passesRun>>
  /\ UNCHANGED <<blocksUsed, files, ownerOfCalls, passCalls, groupVars, gateVars,
                 runnerVars>>

SizeNext == NextPassSize

SizeSpec == SizeInit /\ [][SizeNext]_vars

(***************************************************************************)
(* One group lookup of the Panda run on its own: the member lookups of     *)
(* every eligible chain are issued together and settle in any order; the   *)
(* group is joined (Promise.all over the chains, each a Promise.all over   *)
(* the ids) when all of them have settled, and is then applied.  pass = 0  *)
(* is a group of the initial sweep, pass >= 1 one of a recheck pass.       *)
(***************************************************************************)
\* chains as getLatestBlocks leaves it: a block for every chain with an RPC URL.
ChainConfigs ==
  {[c \in ChainNames |->
      [rpc |-> flags[c],
       snapshotBlock |-> IF flags[c] THEN HeadAt(c, 0) ELSE NoBlock]] :
     flags \in [ChainNames -> BOOLEAN]}

\* The member lookups of the group: one per eligible chain and id.
Members == {<<c, i>> : c \in EligibleChains, i \in 1..Len(batches[batchIdx])}

\* getTokenOwnerBatch has the try/catch around ownerOf inside every member,
\* so the Promise.all of the group never rejects, whatever the members do.
Rejects(tokenIds, resp) == FALSE

\* let attempts = pass; while (attempts > 0) { try { results = await
\* getTokenOwnerBatch(...); break; } catch (err) { attempts--; ... } }:
\* the calls made for a group of pass p.  The initial sweep has no loop.
AttemptsMade(p, rejects) ==
  IF p = 0 THEN 1
  ELSE IF rejects THEN p ELSE 1

\* The getTokenOwnerBatch calls of a group, over the chains.
RECURSIVE SumCalls(_, _)
SumCalls(calls, i) ==
  IF i = 0 THEN 0 ELSE calls[ChainOrder[i]] + SumCalls(calls, i - 1)

\* Mutant of AllSettled: the group is joined when the first member settles.
AllSettled_First(done, members) == done # {} \/ members = {}

\* await Promise.all(chainPromises), each chain a Promise.all over the ids:
\* the loop goes on when every member lookup has settled.
AllSettled(done, members) == done = members

\* Mutant of Awaited: the loop goes to the next group without awaiting the
\* join of this one.
Awaited_NoAwait(p) == p \in {"members", "applied"}

\* The for loop over the batches reaches its next iteration when the body,
\* with its await and the loop over the ids, has run.
Awaited(p) == p = "applied"

GroupInit ==
  /\ variant = "panda"
  /\ BATCH_SIZE = MaxGroup
  /\ snapshotBlock = NoBlock
  /\ chains \in ChainConfigs
  /\ pc = "group"
  /\ pass \in 0..1
  /\ \E n \in 1..MaxGroup : batches = <<[i \in 1..n |-> i]>>
  /\ batchIdx = 1
  /\ tokensArray = IF pass = 0 THEN <<>> ELSE batches[1]
  /\ batchSize = BATCH_SIZE
  /\ finalSnapshot = <<>>
  /\ tokensToRecheck = tokensArray
  /\ totalFound = 0
  /\ chainStats = [c \in ChainNames |-> 0]
  /\ csvData = <<>>
  /\ validData = <<>>
  /\ startIdx = 0
  /\ writes = [id \in TokenIds(variant) |-> 0]
  /\ lookups = 0
  /\ passFound = {}
  /\ everFound = {}
  /\ passesRun = pass
  /\ blocksUsed = [c \in ChainNames |-> {}]
  /\ files = Files0
  /\ ownerOfCalls = NoCalls(variant)
  /\ passCalls = NoCalls(variant)
  /\ memberResp \in [ChainNames -> [Range(batches[1]) ->
                        UNION {Responses(c) : c \in ChainNames}]]
  /\ \A c \in ChainNames : \A id \in Range(batches[1]) :
        memberResp[c][id] \in Responses(c)
  /\ settled = {}
  /\ joined = <<>>
  /\ groupCalls = [c \in ChainNames |-> 0]
  /\ maxConcurrent \in 1..MaxConcurrentBound
  /\ activeRequests = 0
  /\ inFlight = 0
  /\ mint = <<>>
  /\ cpc = <<>>
  /\ attempt = <<>>
  /\ held = <<>>
  /\ tries = <<>>
  /\ returned = <<>>
  /\ failure = <<>>
  /\ waited = <<>>
  /\ input = NoInput
  /\ rowCalls = <<>>
  /\ rowWrites = <<>>
  /\ nextId = 1
  /\ twin = NoTwin
  /\ RunnerIdle

\* The chain lookups of the group are started: every eligible chain's
\* getTokenOwnerBatch calls ownerOf for every id of the batch at once.
IssueGroup ==
  /\ pc = "group"
  /\ pc' = "members"
  /\ inFlight' = inFlight + Cardinality(Members)
  /\ UNCHANGED <<variant, BATCH_SIZE, snapshotBlock, chains, pass, batches,
                 batchIdx, tokensArray, batchSize, finalSnapshot,
                 tokensToRecheck, totalFound, chainStats, csvData, validData,
                 startIdx, writes, lookups, passFound, everFound, passesRun,
                 blocksUsed, files, ownerOfCalls, passCalls, groupVars,
                 maxConcurrent, activeRequests, mint, cpc, attempt, held,
                 tries, returned, failure, waited, fetchVars, loopVars, runnerVars>>

\* One ownerOf call settles: it returns or throws (and is caught).
SettleMember ==
  /\ pc = "members"
  /\ \E member \in Members \ settled : settled' = settled \cup {member}
  /\ inFlight' = inFlight - 1
  /\ UNCHANGED <<runnerVars, runVars, memberResp, joined, groupCalls,
                 maxConcurrent, activeRequests, mint, cpc, attempt, held,
                 tries, returned, failure, waited, fetchVars, loopVars>>

\* Every member has settled: chainResults is joined and the loop over the
\* ids of the batch runs.
JoinGroup ==
  /\ pc = "members"
  /\ AllSettled(settled, Members)
  /\ joined' = ChainResults(chains, batches[batchIdx], memberResp)
  /\ SetLocals(IF pass = 0
               THEN PandaSweepApply(batches[batchIdx], chains, joined', Locals)
               ELSE PandaRecheckApply(batches[batchIdx], chains, joined', Locals))
  /\ groupCalls' = [c \in ChainNames |->
                      IF c \in EligibleChains
                      THEN AttemptsMade(pass, Rejects(batches[batchIdx], memberResp[c]))
                      ELSE 0]
  /\ lookups' = lookups + SumCalls(groupCalls', Len(ChainOrder))
  /\ pc' = "applied"
  /\ UNCHANGED <<variant, BATCH_SIZE, snapshotBlock, chains, pass, batches,
                 batchIdx, tokensArray, batchSize, csvData, validData,
                 startIdx, passFound, everFound, passesRun, blocksUsed,
                 files, ownerOfCalls, passCalls, memberResp, settled, gateVars,
                 runnerVars>>

GroupNext == IssueGroup \/ SettleMember \/ JoinGroup

GroupSpec == GroupInit /\ [][GroupNext]_vars

(***************************************************************************)
(* A Panda run of MaxGroup ids with its member lookups: the groups of the  *)
(* initial sweep and of the recheck passes follow one another, each issued, *)
(* settled in any order, joined and applied as in GroupSpec.  What ownerOf  *)
(* does for an id on a chain is the same in every pass of the run; a chain  *)
(* that is skipped is never called.                                        *)
(***************************************************************************)
SeqInit ==
  /\ variant = "panda"
  /\ BATCH_SIZE \in {1, MaxGroup}
  /\ snapshotBlock = NoBlock
  /\ chains \in ChainConfigs
  /\ pc = "group"
  /\ pass = 0
  /\ batches = CreateBatches(1, MaxGroup, BATCH_SIZE)
  /\ batchIdx = 1
  /\ tokensArray = <<>>
  /\ batchSize = BATCH_SIZE
  /\ finalSnapshot = <<>>
  /\ tokensToRecheck = <<>>
  /\ totalFound = 0
  /\ chainStats = [c \in ChainNames |-> 0]
  /\ csvData = <<>>
  /\ validData = <<>>
  /\ startIdx = 0
  /\ writes = [id \in TokenIds(variant) |-> 0]
  /\ lookups = 0
  /\ passFound = {}
  /\ everFound = {}
  /\ passesRun = 0
  /\ blocksUsed = [c \in ChainNames |-> {}]
  /\ files = Files0
  /\ ownerOfCalls = NoCalls(variant)
  /\ passCalls = NoCalls(variant)
  /\ memberResp \in [ChainNames -> [1..MaxGroup ->
                        UNION {Responses(c) : c \in ChainNames}]]
  /\ \A c \in ChainNames : \A id \in 1..MaxGroup :
        memberResp[c][id] \in (IF Eligible(chains[c]) THEN Responses(c) ELSE {Throw})
  /\ settled = {}
  /\ joined = <<>>
  /\ groupCalls = [c \in ChainNames |-> 0]
  /\ GateIdle
  /\ RunnerIdle

\* The loop goes on after a group: to the next group of the sweep, to the
\* first group of the next recheck pass, or out of the loops.
NextGroup ==
  /\ Awaited(pc)
  /\ settled' = {}
  /\ joined' = <<>>
  /\ groupCalls' = [c \in ChainNames |-> 0]
  /\ IF batchIdx < Len(batches)
     THEN /\ batchIdx' = batchIdx + 1
          /\ pc' = "group"
          /\ UNCHANGED <<pass, tokensArray, batchSize, batches, passesRun>>
     ELSE IF EntersPass(pass + 1, tokensToRecheck)
     THEN /\ pass' = pass + 1
          /\ tokensArray' = tokensToRecheck
          /\ batchSize' = RecheckBatchSize(BATCH_SIZE, pass')
          /\ batches' = CreateRecheckBatches(tokensArray', batchSize')
          /\ batchIdx' = 1
          /\ passesRun' = passesRun + 1
          /\ pc' = "group"
     ELSE /\ pc' = "finished"
          /\ UNCHANGED <<pass, tokensArray, batchSize, batches, batchIdx,
                         passesRun>>
  /\ UNCHANGED <<variant, BATCH_SIZE, snapshotBlock, chains, finalSnapshot,
                 tokensToRecheck, totalFound, chainStats, csvData, validData,
                 startIdx, writes, lookups, passFound, everFound, blocksUsed,
                 files, ownerOfCalls, passCalls, memberResp, gateVars,
                 runnerVars>>

SeqNext == IssueGroup \/ SettleMember \/ JoinGroup \/ NextGroup

SeqSpec == SeqInit /\ [][SeqNext]_vars

(***************************************************************************)
(* The Solana fetcher on its own: NumCalls getNFTOwner calls, started       *)
(* together by the batch loop of processEarningsCSV, share the counter      *)
(* activeRequests.  A step of a call is what it does between two of its     *)
(* suspension points; the steps of different calls interleave freely.       *)
(***************************************************************************)
Calls == 1..NumCalls
Pending == "pending"
Threw == "threw"

\* What an attempt can come to after its first request: the HTTP 429 branch,
\* the empty-result branch, the no-active-account branch, a usable account,
\* or a thrown error (with or without a 429 response on it).
Outcomes1 == {"429", "noResult", "noActive", "ok", "throw429", "throw"}
\* ... and after its second request.
Outcomes2 == {"429", "noResult", "badFormat", "owner", "throw429", "throw"}

\* Mutant of SlotFree: the comparison is off by one.
SlotFree_OffByOne(active, max) == ~(active > max)

\* waitForSlot: while (this.activeRequests >= this.maxConcurrent) sleep
SlotFree(active, max) == ~(active >= max)

\* Mutant of Releases: the catch block does not release the slot.
Releases_NotInCatch(outcome) == IF outcome \in {"throw429", "throw"} THEN 0 ELSE 1

\* The number of releaseSlot() calls on the path of an outcome: one on each.
Releases(outcome) == 1

\* Mutant of Caught: an error without a response is thrown on to the caller.
Caught_OnlyResponses(outcome) == outcome # "throw"

\* The try block encloses the whole attempt: every error is caught.
Caught(outcome) == TRUE

\* Mutant of NextAttempt: a failure path counts the attempt twice.
NextAttempt_Twice(a) == a + 2

\* Every failure path ends in continue, or falls out of the catch block to
\* the end of the loop body: attempt++.
NextAttempt(a) == a + 1

\* No attempt of the call has failed since its last request was posted.
NoFailure == "none"

\* The histories failure and waited are kept for the calls of their domain.
Record(history, c, v) ==
  IF c \in DOMAIN history THEN [history EXCEPT ![c] = v] ELSE history
Recorded(history, c) == IF c \in DOMAIN history THEN history[c] ELSE 0

\* Mutant of BackoffDelay: every failure path sleeps retryDelay * (attempt + 2).
BackoffDelay_Uniform(outcome, a) == a + 2

\* The sleep of a failure path of attempt a, in units of retryDelay:
\* retryDelay * (attempt + 2) on the two 429 paths and in the catch block,
\* retryDelay * (attempt + 1) when the body has no result, and retryDelay
\* when no account is active or the account data is not parsed.
BackoffDelay(outcome, a) ==
  CASE outcome \in {"429", "throw429", "throw"} -> a + 2
    [] outcome = "noResult" -> a + 1
    [] outcome \in {"noActive", "badFormat"} -> 1

\* if (attempt > 0) await sleep(retryDelay * attempt), in units of retryDelay.
RetryDelay(a) == a

\* Whether the failure path sleeps before the next iteration: every path
\* but the catch block on the last attempt with an error that is not a 429.
SleepsBeforeRetry(outcome, a) == ~(outcome = "throw" /\ ~(a < maxRetries - 1))

GateInit ==
  /\ variant = "solana"
  /\ BATCH_SIZE = NumCalls
  /\ snapshotBlock = NoBlock
  /\ chains = [c \in ChainNames |-> [rpc |-> TRUE, snapshotBlock |-> NoBlock]]
  /\ pc = "gate"
  /\ pass = 0
  /\ batches = <<>>
  /\ batchIdx = 0
  /\ tokensArray = <<>>
  /\ batchSize = BATCH_SIZE
  /\ finalSnapshot = <<>>
  /\ tokensToRecheck = <<>>
  /\ totalFound = 0
  /\ chainStats = [c \in ChainNames |-> 0]
  /\ csvData = <<>>
  /\ validData = <<>>
  /\ startIdx = 0
  /\ writes = [id \in TokenIds(variant) |-> 0]
  /\ lookups = 0
  /\ passFound = {}
  /\ everFound = {}
  /\ passesRun = 0
  /\ blocksUsed = [c \in ChainNames |-> {}]
  /\ files = Files0
  /\ ownerOfCalls = NoCalls(variant)
  /\ passCalls = NoCalls(variant)
  /\ GroupIdle
  /\ maxConcurrent \in 1..MaxConcurrentBound
  /\ activeRequests = 0
  /\ inFlight = 0
  /\ mint \in [Calls -> MintValues]
  /\ cpc = [c \in Calls |-> "start"]
  /\ attempt = [c \in Calls |-> 0]
  /\ held = [c \in Calls |-> 0]
  /\ tries = [c \in Calls |-> 0]
  /\ returned = [c \in Calls |-> Pending]
  /\ failure = <<>>
  /\ waited = <<>>
  /\ input = NoInput
  /\ rowCalls = <<>>
  /\ rowWrites = <<>>
  /\ nextId = 1
  /\ twin = NoTwin
  /\ RunnerIdle

\* Mutant of WaitForSlot: the loop takes a slot for each of the attempt's
\* two requests.
WaitForSlot_PerRequest(c) ==
  IF SlotFree(activeRequests, maxConcurrent)
  THEN /\ activeRequests' = activeRequests + 2
       /\ held' = [held EXCEPT ![c] = @ + 2]
       /\ tries' = [tries EXCEPT ![c] = @ + 1]
       /\ cpc' = [cpc EXCEPT ![c] = "acquired"]
  ELSE /\ cpc' = [cpc EXCEPT ![c] = "polling"]
       /\ UNCHANGED <<activeRequests, held, tries>>

\* The synchronous part of waitForSlot: the slot is taken in the same
\* synchronous block as the test that finds it free; otherwise sleep(100).
WaitForSlot(c) ==
  IF SlotFree(activeRequests, maxConcurrent)
  THEN /\ activeRequests' = activeRequests + 1
       /\ held' = [held EXCEPT ![c] = @ + 1]
       /\ tries' = [tries EXCEPT ![c] = @ + 1]
       /\ cpc' = [cpc EXCEPT ![c] = "acquired"]
  ELSE /\ cpc' = [cpc EXCEPT ![c] = "polling"]
       /\ UNCHANGED <<activeRequests, held, tries>>

\* releaseSlot(), n times.
ReleaseSlot(c, n) ==
  /\ activeRequests' = activeRequests - n
  /\ held' = [held EXCEPT ![c] = @ - n]

\* getNFTOwner(mintAddress) up to its first suspension point.
CallGetNFTOwner(c) ==
  /\ pc = "gate"
  /\ cpc[c] = "start"
  /\ IF mint[c] = ""
     THEN /\ returned' = [returned EXCEPT ![c] = Null]
          /\ cpc' = [cpc EXCEPT ![c] = "returned"]
          /\ UNCHANGED <<activeRequests, held, tries>>
     ELSE /\ WaitForSlot(c)
          /\ UNCHANGED returned
  /\ UNCHANGED <<runnerVars, runVars, groupVars, fetchVars, loopVars, maxConcurrent, inFlight, mint, attempt,
                 failure, waited>>

\* sleep(100) of waitForSlot is over: the loop tests again.
PollSlot(c) ==
  /\ cpc[c] = "polling"
  /\ WaitForSlot(c)
  /\ UNCHANGED <<runnerVars, runVars, groupVars, fetchVars, loopVars, maxConcurrent, inFlight, mint, attempt,
                 returned, failure, waited>>

\* await this.waitForSlot() resumes: the first attempt posts its request,
\* a later attempt sleeps retryDelay * attempt first, holding the slot.
BeginAttempt(c) ==
  /\ cpc[c] = "acquired"
  /\ IF attempt[c] > 0
     THEN /\ cpc' = [cpc EXCEPT ![c] = "delay"]
          /\ waited' = Record(waited, c, Recorded(waited, c) + RetryDelay(attempt[c]))
          /\ UNCHANGED inFlight
     ELSE /\ cpc' = [cpc EXCEPT ![c] = "request1"]
          /\ inFlight' = inFlight + 1
          /\ UNCHANGED waited
  /\ UNCHANGED <<runnerVars, runVars, groupVars, fetchVars, loopVars, maxConcurrent, activeRequests, mint,
                 attempt, held, tries, returned, failure>>

\* The sleep before a later attempt is over: getTokenLargestAccounts is posted.
EndDelay(c) ==
  /\ cpc[c] = "delay"
  /\ cpc' = [cpc EXCEPT ![c] = "request1"]
  /\ inFlight' = inFlight + 1
  /\ failure' = Record(failure, c, NoFailure)
  /\ waited' = Record(waited, c, 0)
  /\ UNCHANGED <<runnerVars, runVars, groupVars, fetchVars, loopVars, maxConcurrent, activeRequests, mint,
                 attempt, held, tries, returned>>

\* A failure path of an attempt: the slot is released, then the path sleeps
\* and continues, or leaves the catch block; an error the try block would
\* not catch is thrown on to the caller.
FailAttempt(c, outcome) ==
  /\ ReleaseSlot(c, IF Caught(outcome) THEN Releases(outcome) ELSE 0)
  /\ IF ~Caught(outcome)
     THEN /\ cpc' = [cpc EXCEPT ![c] = "returned"]
          /\ returned' = [returned EXCEPT ![c] = Threw]
          /\ UNCHANGED <<attempt, failure, waited>>
     ELSE IF SleepsBeforeRetry(outcome, attempt[c])
     THEN /\ cpc' = [cpc EXCEPT ![c] = "backoff"]
          /\ failure' = Record(failure, c, outcome)
          /\ waited' = Record(waited, c, BackoffDelay(outcome, attempt[c]))
          /\ UNCHANGED <<attempt, returned>>
     ELSE /\ attempt' = [attempt EXCEPT ![c] = NextAttempt(@)]
          /\ cpc' = [cpc EXCEPT ![c] = "returned"]
          /\ returned' = [returned EXCEPT ![c] = Null]
          /\ UNCHANGED <<failure, waited>>

\* The answer to getTokenLargestAccounts arrives (or the post throws).
Response1(c) ==
  /\ cpc[c] = "request1"
  /\ inFlight' = inFlight - 1
  /\ \E outcome \in Outcomes1 :
       IF outcome = "ok"
       THEN /\ cpc' = [cpc EXCEPT ![c] = "pause"]
            /\ UNCHANGED <<activeRequests, held, attempt, returned, failure, waited>>
       ELSE FailAttempt(c, outcome)
  /\ UNCHANGED <<runnerVars, runVars, groupVars, fetchVars, loopVars, maxConcurrent, mint, tries>>

\* sleep(200) is over: getAccountInfo is posted.
EndPause(c) ==
  /\ cpc[c] = "pause"
  /\ cpc' = [cpc EXCEPT ![c] = "request2"]
  /\ inFlight' = inFlight + 1
  /\ UNCHANGED <<runnerVars, runVars, groupVars, fetchVars, loopVars, maxConcurrent, activeRequests, mint,
                 attempt, held, tries, returned, failure, waited>>

\* The answer to getAccountInfo arrives (or the post throws).
Response2(c) ==
  /\ cpc[c] = "request2"
  /\ inFlight' = inFlight - 1
  /\ \E outcome \in Outcomes2 :
       IF outcome = "owner"
       THEN /\ ReleaseSlot(c, Releases(outcome))
            /\ \E owner \in Owners : returned' = [returned EXCEPT ![c] = owner]
            /\ cpc' = [cpc EXCEPT ![c] = "returned"]
            /\ UNCHANGED <<attempt, failure, waited>>
       ELSE FailAttempt(c, outcome)
  /\ UNCHANGED <<runnerVars, runVars, groupVars, fetchVars, loopVars, maxConcurrent, mint, tries>>

\* The sleep of a failure path is over: continue, attempt++, and either the
\* next iteration calls waitForSlot or the loop ends and null is returned.
EndBackoff(c) ==
  /\ cpc[c] = "backoff"
  /\ attempt' = [attempt EXCEPT ![c] = NextAttempt(@)]
  /\ IF attempt'[c] < maxRetries
     THEN WaitForSlot(c) /\ UNCHANGED returned
     ELSE /\ cpc' = [cpc EXCEPT ![c] = "returned"]
          /\ returned' = [returned EXCEPT ![c] = Null]
          /\ UNCHANGED <<activeRequests, held, tries>>
  /\ UNCHANGED <<runnerVars, runVars, groupVars, fetchVars, loopVars, maxConcurrent, inFlight, mint,
                 failure, waited>>

GateNext ==
  \E c \in Calls :
    \/ CallGetNFTOwner(c)
    \/ PollSlot(c)
    \/ BeginAttempt(c)
    \/ EndDelay(c)
    \/ Response1(c)
    \/ EndPause(c)
    \/ Response2(c)
    \/ EndBackoff(c)

GateSpec == GateInit /\ [][GateNext]_vars

(***************************************************************************)
(* The retry loop of getNFTOwner with its sleeps: the fetcher as above,    *)
(* with the histories failure and waited kept for the first call.          *)
(***************************************************************************)
RetryInit ==
  /\ variant = "solana"
  /\ BATCH_SIZE = NumCalls
  /\ snapshotBlock = NoBlock
  /\ chains = [c \in ChainNames |-> [rpc |-> TRUE, snapshotBlock |-> NoBlock]]
  /\ pc = "gate"
  /\ pass = 0
  /\ batches = <<>>
  /\ batchIdx = 0
  /\ tokensArray = <<>>
  /\ batchSize = BATCH_SIZE
  /\ finalSnapshot = <<>>
  /\ tokensToRecheck = <<>>
  /\ totalFound = 0
  /\ chainStats = [c \in ChainNames |-> 0]
  /\ csvData = <<>>
  /\ validData = <<>>
  /\ startIdx = 0
  /\ writes = [id \in TokenIds(variant) |-> 0]
  /\ lookups = 0
  /\ passFound = {}
  /\ everFound = {}
  /\ passesRun = 0
  /\ blocksUsed = [c \in ChainNames |-> {}]
  /\ files = Files0
  /\ ownerOfCalls = NoCalls(variant)
  /\ passCalls = NoCalls(variant)
  /\ GroupIdle
  /\ maxConcurrent \in 1..MaxConcurrentBound
  /\ activeRequests = 0
  /\ inFlight = 0
  /\ mint \in [Calls -> MintValues]
  /\ cpc = [c \in Calls |-> "start"]
  /\ attempt = [c \in Calls |-> 0]
  /\ held = [c \in Calls |-> 0]
  /\ tries = [c \in Calls |-> 0]
  /\ returned = [c \in Calls |-> Pending]
  /\ failure = [c \in {1} |-> NoFailure]
  /\ waited = [c \in {1} |-> 0]
  /\ input = NoInput
  /\ rowCalls = <<>>
  /\ rowWrites = <<>>
  /\ nextId = 1
  /\ twin = NoTwin
  /\ RunnerIdle

RetrySpec == RetryInit /\ [][GateNext]_vars

(***************************************************************************)
(* The Solana run with its fetcher: processEarningsCSV reads the input,    *)
(* starts getNFTOwner for every row of a batch, assigns each row's         *)
(* OwnerWallet when its call returns, joins the batch and goes on to the   *)
(* next one; the calls of a batch are the calls of the fetcher above.      *)
(***************************************************************************)
\* The configured BATCH_SIZE of the run: two rows to a batch, so that a
\* batch is larger than maxConcurrent = 1 and the input has several batches.
FetchBatch == 2

FetchInit ==
  /\ variant = "solana"
  /\ BATCH_SIZE = FetchBatch
  /\ snapshotBlock = NoBlock
  /\ chains = [c \in ChainNames |-> [rpc |-> TRUE, snapshotBlock |-> NoBlock]]
  /\ pc = "start"
  /\ pass = 0
  /\ batches = <<>>
  /\ batchIdx = 0
  /\ tokensArray = <<>>
  /\ batchSize = BATCH_SIZE
  /\ finalSnapshot = <<>>
  /\ tokensToRecheck = <<>>
  /\ totalFound = 0
  /\ chainStats = [c \in ChainNames |-> 0]
  /\ csvData = <<>>
  /\ validData = <<>>
  /\ startIdx = 0
  /\ writes = [id \in TokenIds(variant) |-> 0]
  /\ lookups = 0
  /\ passFound = {}
  /\ everFound = {}
  /\ passesRun = 0
  /\ blocksUsed = [c \in ChainNames |-> {}]
  /\ files = Files0
  /\ ownerOfCalls = NoCalls(variant)
  /\ passCalls = NoCalls(variant)
  /\ GroupIdle
  /\ maxConcurrent \in 1..MaxConcurrentBound
  /\ activeRequests = 0
  /\ inFlight = 0
  /\ mint = [c \in Calls |-> ""]
  /\ cpc = [c \in Calls |-> "idle"]
  /\ attempt = [c \in Calls |-> 0]
  /\ held = [c \in Calls |-> 0]
  /\ tries = [c \in Calls |-> 0]
  /\ returned = [c \in Calls |-> Pending]
  /\ failure = <<>>
  /\ waited = <<>>
  /\ input = NoInput
  /\ rowCalls = <<>>
  /\ rowWrites = <<>>
  /\ nextId = 1
  /\ twin = NoTwin
  /\ RunnerIdle

\* The number of rows of validData.slice(startIdx, endIdx).
BatchLen == Min(startIdx + BATCH_SIZE, Len(validData)) - startIdx

\* if (!row.SolanaTokenId) return;
Skips(row) == row.SolanaTokenId = ""

\* batch.map(async (row, batchIdx) => { ... }): getNFTOwner is called for
\* every row of the batch that has a token id.
StartBatch ==
  /\ pc = "rows"
  /\ variant = "solana"
  /\ startIdx < Len(validData)
  /\ \A c \in Calls : cpc[c] = "idle"
  /\ pc' = "gate"
  /\ mint' = [c \in Calls |->
                IF c <= BatchLen THEN validData[startIdx + c].SolanaTokenId ELSE ""]
  /\ cpc' = [c \in Calls |->
               IF c > BatchLen THEN "idle"
               ELSE IF Skips(validData[startIdx + c]) THEN "skipped" ELSE "start"]
  /\ rowCalls' = [i \in DOMAIN rowCalls |->
                    IF i \in (startIdx + 1)..(startIdx + BatchLen) /\ ~Skips(validData[i])
                    THEN rowCalls[i] + 1 ELSE rowCalls[i]]
  /\ UNCHANGED <<variant, BATCH_SIZE, snapshotBlock, chains, pass, batches,
                 batchIdx, tokensArray, batchSize, finalSnapshot,
                 tokensToRecheck, totalFound, chainStats, csvData, validData,
                 startIdx, writes, lookups, passFound, everFound, passesRun>>
  /\ UNCHANGED <<blocksUsed, files, ownerOfCalls, passCalls, groupVars, runnerVars,
                 loopVars, maxConcurrent, activeRequests, inFlight, attempt, held, tries,
                 returned, failure, waited, input, rowWrites>>

\* const owner = await this.getNFTOwner(...) resumes: row.OwnerWallet = owner.
AssignOwner(c) ==
  /\ pc = "gate"
  /\ cpc[c] = "returned"
  /\ rowWrites # <<>>
  /\ validData' = [validData EXCEPT ![startIdx + c].OwnerWallet = returned[c]]
  /\ rowWrites' = [rowWrites EXCEPT ![startIdx + c] = @ + 1]
  /\ cpc' = [cpc EXCEPT ![c] = "assigned"]
  /\ UNCHANGED <<variant, BATCH_SIZE, snapshotBlock, chains, pc, pass, batches,
                 batchIdx, tokensArray, batchSize, finalSnapshot,
                 tokensToRecheck, totalFound, chainStats, csvData,
                 startIdx, writes, lookups, passFound, everFound, passesRun>>
  /\ UNCHANGED <<blocksUsed, files, ownerOfCalls, passCalls, groupVars, runnerVars,
                 loopVars, maxConcurrent, activeRequests, inFlight, mint, attempt, held,
                 tries, returned, failure, waited, input, rowCalls>>

\* await Promise.all(batchPromises) resumes, then sleep(200) and the next
\* iteration of the batch loop; the fetcher is as before the batch.
JoinBatch ==
  /\ pc = "gate"
  /\ \E c \in Calls : cpc[c] # "idle"
  /\ \A c \in Calls : cpc[c] \in {"assigned", "skipped", "idle"}
  /\ pc' = "rows"
  /\ startIdx' = NextStart(startIdx, BATCH_SIZE)
  /\ lookups' = lookups + 1
  /\ mint' = [c \in Calls |-> ""]
  /\ cpc' = [c \in Calls |-> "idle"]
  /\ attempt' = [c \in Calls |-> 0]
  /\ tries' = [c \in Calls |-> 0]
  /\ returned' = [c \in Calls |-> Pending]
  /\ UNCHANGED <<variant, BATCH_SIZE, snapshotBlock, chains, pass, batches,
                 batchIdx, tokensArray, batchSize, finalSnapshot,
                 tokensToRecheck, totalFound, chainStats, csvData, validData,
                 writes, passFound, everFound, passesRun>>
  /\ UNCHANGED <<blocksUsed, files, ownerOfCalls, passCalls, groupVars, runnerVars,
                 loopVars, maxConcurrent, activeRequests, inFlight, held, failure, waited,
                 fetchVars>>

FetchNext ==
  \/ ReadCSV
  \/ StartBatch
  \/ GateNext
  \/ \E c \in Calls : AssignOwner(c)
  \/ JoinBatch
  \/ SolanaGenerateOutput

FetchSpec == FetchInit /\ [][FetchNext]_vars

\* Every timer fires and every request is answered or times out, so a step
\* that can be taken is taken in the end.
FetchFairSpec == FetchSpec /\ WF_vars(FetchNext)

(***************************************************************************)
(* The unified runner: start() validates the environment once and then     *)
(* serves menu choices; choice 4 is runAllSnapshotters.  A snapshotter run  *)
(* is two steps, its entry (with the check at its head) and its end, so    *)
(* that the runs under way are part of the state.                          *)
(***************************************************************************)
\* The snapshotters, in the order of the steps of runAllSnapshotters.
Snapshotters == <<"infinity", "panda", "solana">>

\* Which configuration values are set, and whether the Solana input file exists.
Envs == [MORALIS_API_KEY : BOOLEAN, HELIUS_API_KEY : BOOLEAN,
         ETH_RPC_URL : BOOLEAN, ARBITRUM_RPC_URL : BOOLEAN,
         inputFile : BOOLEAN]

\* validateEnvironment: requiredVars = ['MORALIS_API_KEY']
validateEnvironment(e) == e.MORALIS_API_KEY

\* The checks at the head of run*Snapshotter that throw before anything is
\* done: ETH_RPC_URL for Infinity, HELIUS_API_KEY and the input file for
\* Solana; Panda only warns about missing RPC URLs.
GuardThrows(name, e) ==
  CASE name = "infinity" -> ~e.ETH_RPC_URL
    [] name = "panda" -> FALSE
    [] name = "solana" -> ~e.HELIUS_API_KEY \/ ~e.inputFile

\* The configuration values the checks of a menu choice demand.
RequiredKeys(ch) ==
  CASE ch = 1 -> {"MORALIS_API_KEY", "ETH_RPC_URL"}
    [] ch = 2 -> {"MORALIS_API_KEY"}
    [] ch = 3 -> {"MORALIS_API_KEY", "HELIUS_API_KEY"}
    [] ch = 4 -> {"MORALIS_API_KEY", "HELIUS_API_KEY", "ETH_RPC_URL"}
    [] OTHER -> {}

\* How a run that passed its check can end: the block lookup throws, the
\* input CSV is empty or lacks the column, the output step throws, or the
\* run returns its report.  Panda with no RPC URL at all makes no lookup.
RunOutcomes(name, e) ==
  CASE name = "infinity" -> {"blockFails", "fsError", "ok"}
    [] name = "panda" -> IF e.ETH_RPC_URL \/ e.ARBITRUM_RPC_URL
                         THEN {"blockFails", "fsError", "ok"}
                         ELSE {"fsError", "ok"}
    [] name = "solana" -> {"csvError", "fsError", "ok"}

\* Whether the run sent a network request before it ended.
Sends(name, e, outcome) ==
  CASE name = "infinity" -> TRUE
    [] name = "panda" -> e.ETH_RPC_URL \/ e.ARBITRUM_RPC_URL
    [] name = "solana" -> outcome # "csvError"

\* Whether the run reached its output step, which deletes the old snapshot
\* files and writes the new one.
Changes(outcome) == outcome \in {"fsError", "ok"}

\* Mutant of Propagates: runAllSnapshotters does not catch the error of a step.
Propagates_Always(ch, threw) == threw

\* An error of a run reaches start(), which exits, for the choices 1..3;
\* each step of runAllSnapshotters has its own try/catch.
Propagates(ch, threw) == ch # 4 /\ threw

\* results.<name> = await this.run...() or { error: error.message }
StepResult(threw) == IF threw THEN "error" ELSE "ok"

RunnerInit ==
  /\ variant = "infinity"
  /\ BATCH_SIZE = 25
  /\ snapshotBlock = NoBlock
  /\ chains = [c \in ChainNames |-> [rpc |-> TRUE, snapshotBlock |-> NoBlock]]
  /\ pc = "runner"
  /\ pass = 0
  /\ batches = <<>>
  /\ batchIdx = 0
  /\ tokensArray = <<>>
  /\ batchSize = BATCH_SIZE
  /\ finalSnapshot = <<>>
  /\ tokensToRecheck = <<>>
  /\ totalFound = 0
  /\ chainStats = [c \in ChainNames |-> 0]
  /\ csvData = <<>>
  /\ validData = <<>>
  /\ startIdx = 0
  /\ writes = [id \in TokenIds(variant) |-> 0]
  /\ lookups = 0
  /\ passFound = {}
  /\ everFound = {}
  /\ passesRun = 0
  /\ blocksUsed = [c \in ChainNames |-> {}]
  /\ files = Files0
  /\ ownerOfCalls = NoCalls(variant)
  /\ passCalls = NoCalls(variant)
  /\ GroupIdle
  /\ GateIdle
  /\ env \in Envs
  /\ choice = 0
  /\ kpc = "start"
  /\ allResults = <<>>
  /\ running = {}
  /\ order = <<>>
  /\ requested = {}
  /\ changed = {}
  /\ thrown = {}

\* start(), up to the menu: validateEnvironment() throws into the catch
\* block of start(), which exits.
ValidateEnvironment ==
  /\ kpc = "start"
  /\ kpc' = IF validateEnvironment(env) THEN "menu" ELSE "fatal"
  /\ UNCHANGED <<runVars, groupVars, gateVars, env, choice, allResults,
                 running, order, requested, changed, thrown>>

\* A choice 1..4 is entered at the menu.
Choose ==
  /\ kpc = "menu"
  /\ \E ch \in 1..4 : choice' = ch
  /\ kpc' = "serve"
  /\ allResults' = <<>>
  /\ order' = <<>>
  /\ requested' = {}
  /\ changed' = {}
  /\ thrown' = {}
  /\ UNCHANGED <<runVars, groupVars, gateVars, env, running>>

\* The snapshotter the choice runs next.
Current == IF choice = 4 THEN Snapshotters[Len(order) + 1] ELSE Snapshotters[choice]

\* After a run has ended: the error goes to start(), or the step of
\* runAllSnapshotters records the result and the next step follows.
Settle(name, threw, entered) ==
  IF Propagates(choice, threw)
  THEN /\ kpc' = "fatal"
       /\ UNCHANGED allResults
  ELSE IF choice = 4
       THEN /\ allResults' = [n \in DOMAIN allResults \cup {name} |->
                                IF n = name THEN StepResult(threw) ELSE allResults[n]]
            /\ kpc' = IF Len(entered) = Len(Snapshotters) THEN "summary" ELSE "serve"
       ELSE /\ kpc' = "prompt"
            /\ UNCHANGED allResults

\* run*Snapshotter is called: its check throws, or the run gets under way.
Enter(name) ==
  /\ kpc = "serve"
  /\ running = {}
  /\ Len(order) < (IF choice = 4 THEN Len(Snapshotters) ELSE 1)
  /\ name = Current
  /\ order' = Append(order, name)
  /\ IF GuardThrows(name, env)
     THEN /\ thrown' = thrown \cup {name}
          /\ Settle(name, TRUE, Append(order, name))
          /\ UNCHANGED running
     ELSE /\ running' = {name}
          /\ UNCHANGED <<thrown, kpc, allResults>>
  /\ UNCHANGED <<runVars, groupVars, gateVars, env, choice, requested, changed>>

\* The run ends: it returns its report or throws.
Finish(name) ==
  /\ kpc = "serve"
  /\ running = {name}
  /\ \E outcome \in RunOutcomes(name, env) :
       /\ requested' = IF Sends(name, env, outcome) THEN requested \cup {name} ELSE requested
       /\ changed' = IF Changes(outcome) THEN changed \cup {name} ELSE changed
       /\ thrown' = IF outcome # "ok" THEN thrown \cup {name} ELSE thrown
       /\ Settle(name, outcome # "ok", order)
  /\ running' = {}
  /\ UNCHANGED <<runVars, groupVars, gateVars, env, choice, order>>

\* runAllSnapshotters, after the third step: the summary is printed and
\* results is returned.
Summary ==
  /\ kpc = "summary"
  /\ kpc' = "prompt"
  /\ UNCHANGED <<runVars, groupVars, gateVars, env, choice, allResults,
                 running, order, requested, changed, thrown>>

\* "Would you like to run another snapshotter? (y/n)"
Prompt ==
  /\ kpc = "prompt"
  /\ \E again \in BOOLEAN : kpc' = IF again THEN "menu" ELSE "exit"
  /\ UNCHANGED <<runVars, groupVars, gateVars, env, choice, allResults,
                 running, order, requested, changed, thrown>>

RunnerNext ==
  \/ ValidateEnvironment
  \/ Choose
  \/ \E name \in Range(Snapshotters) : Enter(name)
  \/ \E name \in Range(Snapshotters) : Finish(name)
  \/ Summary
  \/ Prompt

RunnerSpec == RunnerInit /\ [][RunnerNext]_vars

(***************************************************************************)
(* Properties.                                                             *)
(***************************************************************************)
Resolved == DOMAIN finalSnapshot
Unresolved == Range(tokensToRecheck)
\* The initial sweep has finished.
SweepDone == pc \in {"passEnd", "recheck", "recheckBatch", "output", "done"}

\* C1: in an EVM run, once the initial sweep has finished and after every
\* group of the recheck passes, every token id is in exactly one of
\* finalSnapshot and tokensToRecheck.
C1_Partition ==
  (variant \in EVM /\ SweepDone) =>
     /\ Resolved \cap Unresolved = {}
     /\ Resolved \cup Unresolved = TokenIds(variant)

\* A group of a two-group recheck pass resolved some ids and left others.
C1_Witness ==
  /\ variant \in EVM
  /\ pc = "recheckBatch"
  /\ batchIdx = 2
  /\ passFound # {}
  /\ Unresolved # {}

\* C2: no record with a null or zero-address owner is ever in finalSnapshot,
\* and at the end of the run an id for which no lookup answered a non-zero
\* owner is in tokensToRecheck and not in finalSnapshot.
C2_NoNullOrZeroOwner ==
  variant \in EVM =>
     /\ \A id \in Resolved : finalSnapshot[id].owner \notin {Null, "", ZeroAddress}
     /\ pc = "done" =>
          \A id \in TokenIds(variant) \ everFound :
             id \in Unresolved /\ id \notin Resolved

\* The run ended after three recheck passes with some ids never answered and
\* others recorded.
C2_Witness ==
  /\ variant \in EVM
  /\ pc = "done"
  /\ passesRun = 3
  /\ TokenIds(variant) \ everFound # {}
  /\ Resolved # {}

\* C3: a record of finalSnapshot is never written again: it stays in the map
\* unchanged and its id is written at most once in the run.
C3_Step ==
  variant \in EVM =>
     /\ \A id \in Resolved :
          /\ id \in DOMAIN finalSnapshot'
          /\ finalSnapshot'[id] = finalSnapshot[id]
          /\ writes'[id] = writes[id]
     /\ \A id \in TokenIds(variant) : writes'[id] <= 1

\* C3, as a property of every step.
C3_WriteOnce == [][C3_Step]_vars

\* The third recheck pass wrote records while older records were in the map.
C3_Witness ==
  /\ variant \in EVM
  /\ pc = "passEnd"
  /\ pass = 3
  /\ passFound # {}
  /\ Resolved \ passFound # {}

\* C4: from the end of the initial sweep on, tokensToRecheck never gains an
\* id and its size never grows.
C4_Step ==
  (variant \in EVM /\ SweepDone) =>
     /\ Range(tokensToRecheck') \subseteq Unresolved
     /\ Len(tokensToRecheck') <= Len(tokensToRecheck)

\* C4, as a property of every step.
C4_Monotone == [][C4_Step]_vars

\* The Set shrank in the first recheck pass and again in the second.
C4_Witness ==
  /\ variant \in EVM
  /\ pc = "passEnd"
  /\ pass = 2
  /\ Len(tokensArray) < TotalSupply(variant)
  /\ Len(tokensToRecheck) < Len(tokensArray)
  /\ Unresolved # {}

\* C5: at the end of the initial sweep tokensToRecheck holds exactly the ids
\* no looked-up chain answered a non-zero owner for; at the end of a recheck
\* pass it holds exactly the ids that entered the pass minus those a lookup
\* of the pass answered a non-zero owner for; and the ids entering a pass
\* are the ids of tokensToRecheck.
C5_UnresolvedExact ==
  variant \in EVM =>
     /\ (pc = "passEnd" /\ pass = 0) =>
           Unresolved = TokenIds(variant) \ passFound
     /\ (pc = "passEnd" /\ pass >= 1) =>
           Unresolved = Range(tokensArray) \ passFound
     /\ (pc = "recheckBatch" /\ batchIdx = 1) =>
           tokensArray = tokensToRecheck

\* Three ids entered pass 1, two were resolved in it, one is left for pass 2.
C5_Witness ==
  /\ variant \in EVM
  /\ pc = "passEnd"
  /\ pass = 1
  /\ Len(tokensArray) = 3
  /\ Cardinality(passFound) = 2
  /\ Len(tokensToRecheck) = 1

\* The owner column of a report row.
RowOwner(row) == IF "OwnerWallet" \in DOMAIN row THEN row.OwnerWallet ELSE row.Owner
RowIds == {csvData[i].TokenId : i \in 1..Len(csvData)}

\* C6: an EVM run enters at most three recheck passes, and once the loop
\* variable is past 3 no further group lookup is issued, whatever is left in
\* tokensToRecheck.
C6_Step ==
  variant \in EVM =>
     /\ passesRun' <= 3
     /\ pass' \in 0..4
     /\ pass > 3 => lookups' = lookups

\* C6, as a property of every step.
C6_AtMostThreePasses == [][C6_Step]_vars

\* The run ended after three recheck passes with ids still unresolved.
C6_Witness ==
  /\ variant \in EVM
  /\ pc = "done"
  /\ passesRun = 3
  /\ pass = 4
  /\ Unresolved # {}

\* C7: while tokensToRecheck is empty after the initial sweep, no recheck
\* pass is entered and no lookup is issued; and when every id is answered in
\* the initial sweep the map has TotalSupply records and the Set is empty.
C7_Step ==
  variant \in EVM =>
     /\ (SweepDone /\ tokensToRecheck = <<>>) =>
           passesRun' = passesRun /\ lookups' = lookups
     /\ (pc = "passEnd" /\ pass = 0 /\ passFound = TokenIds(variant)) =>
           /\ Cardinality(Resolved) = TotalSupply(variant)
           /\ tokensToRecheck = <<>>

\* C7, as a property of every step.
C7_NoPassWhenEmpty == [][C7_Step]_vars

\* Every id was resolved in the initial sweep and the run ended without a
\* recheck pass.
C7_Witness ==
  /\ variant \in EVM
  /\ pc = "done"
  /\ passesRun = 0
  /\ Cardinality(Resolved) = TotalSupply(variant)

\* C8 as stated: in every variant no row of the report has a null or empty
\* owner.
C8_Original ==
  pc = "done" => \A i \in 1..Len(csvData) : RowOwner(csvData[i]) \notin {Null, ""}

\* C8 as amended: the report of an EVM run has rows for exactly the resolved
\* ids, none for an id of tokensToRecheck and none with a null, empty or
\* zero owner; the report of the Solana run has one row for every row of
\* validData, and the row of an unresolved item carries a null OwnerWallet.
C8_ReportRows ==
  pc = "done" =>
     IF variant \in EVM
     THEN /\ \A i \in 1..Len(csvData) :
               RowOwner(csvData[i]) \notin {Null, "", ZeroAddress}
          /\ RowIds = Resolved
          /\ RowIds \cap Unresolved = {}
          /\ Len(csvData) = Cardinality(Resolved)
     ELSE /\ Len(csvData) = Len(validData)
          /\ \A i \in 1..Len(csvData) :
               /\ csvData[i].IntTokenId = validData[i].IntTokenId
               /\ csvData[i].OwnerWallet = validData[i].OwnerWallet

\* An EVM run ended with ids unresolved and a report that has rows.
C8_Witness ==
  /\ variant \in EVM
  /\ pc = "done"
  /\ Unresolved # {}
  /\ csvData # <<>>

\* C9: in recheck pass p the group size is max(5, floor(B / p)): it is at
\* least 5, above 5 it is the quotient of B by p, and it is 5 only when the
\* quotient is at most 5; with B = 25 the sizes are 25, 12 and 8.
C9_BatchSizeLaw ==
  pass >= 1 =>
     /\ batchSize >= 5
     /\ batchSize > 5 =>
          batchSize * pass <= BATCH_SIZE /\ BATCH_SIZE < (batchSize + 1) * pass
     /\ batchSize = 5 => BATCH_SIZE < 6 * pass
     /\ BATCH_SIZE = 25 =>
          batchSize = (IF pass = 1 THEN 25 ELSE IF pass = 2 THEN 12 ELSE 8)

\* Pass 2 of a run configured with B = 25 uses groups of 12.
C9_Witness == pc = "sizes" /\ BATCH_SIZE = 25 /\ pass = 2 /\ batchSize = 12

C10_Step == (pass >= 1 \/ BATCH_SIZE >= 5) => batchSize' <= batchSize

JoinedResults(c) ==
  LET k == CHOOSE k \in 1..Len(joined) : joined[k].chainName = c
  IN joined[k].results

\* C11: the group lookup completes only when every member lookup has
\* settled, and getTokenOwnerBatch then gives, for every looked-up chain,
\* exactly one {tokenId, owner} entry per id of the batch, in the order of
\* the batch, with owner null for a member whose ownerOf call threw and the
\* answer of the call for every other member.
C11_OnePerIdInOrder ==
  /\ pc \in {"group", "members"} => joined = <<>>
  /\ pc = "applied" =>
        /\ settled = Members
        /\ \A c \in EligibleChains :
              /\ Len(JoinedResults(c)) = Len(batches[1])
              /\ \A i \in 1..Len(batches[1]) :
                    /\ JoinedResults(c)[i].tokenId = batches[1][i]
                    /\ JoinedResults(c)[i].owner =
                          IF memberResp[c][batches[1][i]] = Throw THEN Null
                          ELSE memberResp[c][batches[1][i]]

\* A group was joined in which one member threw and a later member of the
\* same chain answered an owner.
C11_Witness ==
  /\ pc = "applied"
  /\ "ethereum" \in EligibleChains
  /\ Len(batches[1]) = 2
  /\ memberResp["ethereum"][1] = Throw
  /\ memberResp["ethereum"][2] = "0xA"
  /\ JoinedResults("ethereum")[2].owner = "0xA"

\* The snapshot block of a chain in the run.
RunBlock(c) == IF variant = "infinity" THEN snapshotBlock ELSE chains[c].snapshotBlock
\* The chain of a record.
RecordChain(id) ==
  IF variant = "infinity" THEN "ethereum" ELSE finalSnapshot[id].chain

\* The lookups of every chain have used the chain's snapshot block and no
\* other, and every record carries the snapshot block of its chain.
C12_OneBlock ==
  /\ \A c \in ChainNames : blocksUsed[c] \subseteq {RunBlock(c)}
  /\ \A id \in Resolved : finalSnapshot[id].block = RunBlock(RecordChain(id))

\* C12: in an EVM run the snapshot blocks are captured before the sweep
\* starts and never change afterwards; every ownerOf lookup of a chain, in
\* the sweep and in every recheck pass, uses the chain's snapshot block and
\* every record written for the chain carries it.
C12_Step ==
  variant \in EVM =>
     /\ pc # "start" => (snapshotBlock' = snapshotBlock /\ chains' = chains)
     /\ C12_OneBlock'

\* C12, as a property of every step.
C12_SameBlock == [][C12_Step]_vars

\* The second recheck pass of a Panda run wrote records; the map has records
\* of both chains and both chains have been looked up.
C12_Witness ==
  /\ variant = "panda"
  /\ pc = "passEnd"
  /\ pass = 2
  /\ passFound # {}
  /\ {finalSnapshot[id].chain : id \in Resolved} = ChainNames
  /\ \A c \in ChainNames : blocksUsed[c] # {}

\* The looked-up chains whose ownerOf call answered a non-zero owner for id.
Answering(id) == {c \in EligibleChains : memberResp[c][id] \in Owners}
\* The earliest chain of a set of chains in configuration order.
EarliestOf(cs) ==
  ChainOrder[CHOOSE i \in 1..Len(ChainOrder) :
               /\ ChainOrder[i] \in cs
               /\ \A j \in 1..(i - 1) : ChainOrder[j] \notin cs]

\* C13: when the group has been applied, in the sweep or in a recheck pass
\* and whatever order the member lookups settled in, every id for which one
\* or several chains answered a non-zero owner is recorded with the earliest
\* such chain in configuration order and with that chain's owner.
C13_EarliestChainWins ==
  pc = "applied" =>
     \A id \in Range(batches[1]) :
        Answering(id) # {} =>
           /\ id \in Resolved
           /\ finalSnapshot[id].chain = EarliestOf(Answering(id))
           /\ finalSnapshot[id].owner = memberResp[EarliestOf(Answering(id))][id]

\* A group of a recheck pass in which both chains answered an owner for id 1.
C13_Witness ==
  /\ pc = "applied"
  /\ pass = 1
  /\ Answering(1) = ChainNames
  /\ finalSnapshot[1].chain = "ethereum"
  /\ finalSnapshot[1].owner = "0xA"

\* The chains that have no snapshot block or no RPC URL.
SkippedChains ==
  {c \in ChainNames : chains[c].snapshotBlock = NoBlock \/ ~chains[c].rpc}

\* C14: a chain without a snapshot block or without an RPC URL has no member
\* lookup in the group and is the chain of no record; the group is applied
\* all the same, and an id is recorded exactly when one of the other chains
\* answered a non-zero owner for it, whatever the skipped chain would have
\* answered.
C14_SkippedChains ==
  /\ \A member \in settled : member[1] \notin SkippedChains
  /\ pc = "applied" =>
        /\ \A id \in Resolved : finalSnapshot[id].chain \notin SkippedChains
        /\ \A k \in 1..Len(joined) :
              joined[k].skipped <=> joined[k].chainName \in SkippedChains
        /\ \A id \in Range(batches[1]) :
              id \in Resolved <=>
                 \E c \in ChainNames \ SkippedChains : memberResp[c][id] \in Owners
        /\ pass = 0 => Unresolved = Range(batches[1]) \ Resolved

\* ethereum is skipped and arbitrum is looked up: id 1, which both would
\* answer, is recorded on arbitrum; id 2, which only ethereum would answer,
\* is left unresolved.
C14_Witness ==
  /\ pc = "applied"
  /\ pass = 0
  /\ SkippedChains = {"ethereum"}
  /\ Len(batches[1]) = 2
  /\ memberResp["ethereum"][1] = "0xA"
  /\ memberResp["ethereum"][2] = "0xA"
  /\ memberResp["arbitrum"][2] = Throw
  /\ 1 \in Resolved
  /\ finalSnapshot[1].chain = "arbitrum"
  /\ 2 \in Unresolved

\* C15_Step: the counter stays within 0..maxConcurrent, and a step that
\* reserves a slot starts with fewer than maxConcurrent in flight.
C15_Step ==
  /\ 0 <= activeRequests'
  /\ activeRequests' <= maxConcurrent
  /\ activeRequests' > activeRequests => activeRequests < maxConcurrent

\* C15: in the Solana fetcher 0 <= activeRequests <= maxConcurrent holds in
\* every reachable state, for every interleaving of the waitForSlot and
\* releaseSlot steps of the concurrent getNFTOwner calls, and waitForSlot
\* reserves a slot only when fewer than maxConcurrent are in flight.
C15_CounterInRange == [][C15_Step]_vars

\* Every slot is taken and another call polls for one.
C15_Witness ==
  /\ pc = "gate"
  /\ activeRequests = maxConcurrent
  /\ \E c \in Calls : cpc[c] = "polling"
  /\ \E c \in Calls : held[c] = 1

\* The positions of a getNFTOwner call inside an attempt.
InAttempt == {"acquired", "delay", "request1", "pause", "request2"}

RECURSIVE SumHeld(_)
SumHeld(cs) ==
  IF cs = {} THEN 0
  ELSE LET c == CHOOSE x \in cs : TRUE IN held[c] + SumHeld(cs \ {c})

\* C16: a call holds one slot exactly while it is inside an attempt and none
\* outside, whatever path the attempt was left on, so no slot is released
\* zero times or twice; the counter is the number of slots held, and it is
\* 0 when every call has returned.
C16_ReleasedOnce ==
  pc = "gate" =>
     /\ \A c \in Calls : held[c] = (IF cpc[c] \in InAttempt THEN 1 ELSE 0)
     /\ activeRequests = SumHeld(Calls)
     /\ (\A c \in Calls : cpc[c] = "returned") => activeRequests = 0

\* Both calls have returned, one with null after five failed attempts and
\* one with an owner.
C16_Witness ==
  /\ pc = "gate"
  /\ \A c \in Calls : cpc[c] = "returned"
  /\ \E c \in Calls : returned[c] = Null /\ tries[c] = 5
  /\ \E c \in Calls : returned[c] \in Owners
  /\ activeRequests = 0

\* C17 as stated: every lookup request in flight holds a slot, so the
\* requests in flight never exceed maxConcurrent.
C17_Original == inFlight <= activeRequests /\ inFlight <= maxConcurrent

\* C18_Step: a call begins at most 5 attempts, returns null for a mint
\* address only after 5 attempts, and the sleep after a failed attempt that
\* is not the fifth is followed by waitForSlot of the next attempt.
C18_Step ==
  pc = "gate" =>
     \A c \in Calls :
        /\ tries'[c] <= 5
        /\ (returned'[c] = Null /\ mint[c] # "") => tries'[c] = 5
        /\ (cpc[c] = "backoff" /\ tries[c] < 5 /\ cpc'[c] # "backoff") =>
              cpc'[c] \in {"acquired", "polling"}
        /\ (cpc[c] \in {"request1", "request2"} /\ tries[c] < 5
             /\ cpc'[c] \notin {"request1", "request2", "pause"}
             /\ returned'[c] \notin Owners) =>
              cpc'[c] = "backoff"

\* C18: getNFTOwner makes at most 5 attempts for a mint address, and a
\* failed attempt that is not the fifth is followed by another attempt.
C18_AtMostFiveAttempts == [][C18_Step]_vars

\* A call is in its fifth attempt after four failed ones.
C18_Witness ==
  /\ pc = "gate"
  /\ \E c \in Calls : tries[c] = 5 /\ attempt[c] = 4 /\ cpc[c] = "request2"

\* C19: getNFTOwner never throws to its caller; it returns null or an
\* owner, null when its attempts are used up, and null for a blank mint
\* address without taking a slot or sending a request.
C19_NeverThrows ==
  pc = "gate" =>
     \A c \in Calls :
        /\ returned[c] \in {Pending, Null} \cup Owners
        /\ cpc[c] = "returned" => returned[c] # Pending
        /\ attempt[c] >= maxRetries => (cpc[c] = "returned" /\ returned[c] = Null)
        /\ mint[c] = "" =>
              /\ cpc[c] \in {"start", "returned"}
              /\ returned[c] \in {Pending, Null}
              /\ tries[c] = 0
              /\ held[c] = 0

\* A call with a blank mint address returned null, and a call whose last
\* attempt ended in a thrown error returned null.
C19_Witness ==
  /\ pc = "gate"
  /\ \E c \in Calls : mint[c] = "" /\ cpc[c] = "returned" /\ returned[c] = Null
  /\ \E c \in Calls : mint[c] # "" /\ cpc[c] = "returned" /\ returned[c] = Null
                        /\ attempt[c] = 5

\* C20: the report of an EVM run has exactly one row per record of
\* finalSnapshot, carrying the record's owner, chain and block, and the rows
\* are in strictly ascending order of token id.
C20_RowsAreRecordsSorted ==
  (variant \in EVM /\ pc = "done") =>
     /\ Len(csvData) = Cardinality(Resolved)
     /\ \A id \in Resolved :
           \E i \in 1..Len(csvData) :
              /\ csvData[i].TokenId = id
              /\ csvData[i].Owner = finalSnapshot[id].owner
              /\ csvData[i].Chain = RecordChain(id)
              /\ csvData[i].BlockNumber = finalSnapshot[id].block
     /\ \A i \in 1..Len(csvData) : csvData[i].TokenId \in Resolved
     /\ \A i, j \in 1..Len(csvData) :
           i < j => csvData[i].TokenId < csvData[j].TokenId

\* A Panda run ended after recheck passes with a report of records of both
\* chains and an id left out.
C20_Witness ==
  /\ variant = "panda"
  /\ pc = "done"
  /\ passesRun >= 1
  /\ Len(csvData) >= 2
  /\ {csvData[i].Chain : i \in 1..Len(csvData)} = ChainNames
  /\ Cardinality(Resolved) < TotalSupply(variant)

\* C21: in the Infinity run totalFound is the number of records of
\* finalSnapshot after every group, and at the end of the run the missing
\* count TOTAL_SUPPLY - totalFound is the size of tokensToRecheck.
C21_FoundCounter ==
  variant = "infinity" =>
     /\ totalFound = Cardinality(Resolved)
     /\ pc = "done" =>
           /\ TotalSupply(variant) - totalFound = Len(tokensToRecheck)
           /\ totalFound + Cardinality(Unresolved) = TotalSupply(variant)

\* An Infinity run ended with tokens found in the sweep and in a recheck
\* pass and tokens missing.
C21_Witness ==
  /\ variant = "infinity"
  /\ pc = "done"
  /\ passesRun = 3
  /\ totalFound >= 2
  /\ Len(tokensToRecheck) >= 1

\* C22: a network-level failure never terminates a run; in particular a
\* failing latest-block lookup of a chain leaves the run going (the chain
\* counts as not found), so an EVM run, whose input is the network alone,
\* never ends in the failed state.
C22_Original ==
  variant \in EVM => pc # "failed"

\* C23: when a configuration value required for the chosen work is missing,
\* the runner sends no network request and deletes or writes no file, for
\* every menu choice, 'run all' included.
C23_Original ==
  (choice \in 1..4 /\ \E k \in RequiredKeys(choice) : ~env[k])
     => requested = {} /\ changed = {}

\* C24: runAllSnapshotters enters Infinity, Panda and Solana in that order
\* and never two at once; a run that throws is recorded as an error in its
\* result and the later ones still run; the call itself never fails, and
\* when it returns all three have a result.
C24_RunAllSequential ==
  /\ Cardinality(running) <= 1
  /\ choice = 4 =>
       /\ kpc # "fatal"
       /\ Len(order) <= Len(Snapshotters)
       /\ \A i \in 1..Len(order) : order[i] = Snapshotters[i]
       /\ running \subseteq {order[i] : i \in {Len(order)} \cap DOMAIN order}
       /\ DOMAIN allResults = Range(order) \ running
       /\ \A n \in DOMAIN allResults : allResults[n] = "error" <=> n \in thrown
       /\ \A n \in requested \cup changed \cup thrown : n \in Range(order)
       /\ kpc \in {"summary", "prompt", "exit", "menu"}
             => DOMAIN allResults = Range(Snapshotters)

C24_Witness ==
  /\ choice = 4
  /\ kpc = "summary"
  /\ DOMAIN allResults = Range(Snapshotters)
  /\ allResults["infinity"] = "error"
  /\ allResults["panda"] = "ok"
  /\ allResults["solana"] = "error"
  /\ changed = {"panda"}

\* C25: the files of the directory change only in the output step, which
\* runs when every lookup pass has finished and removes the old snapshot
\* files of the collection before the new one is created; after a run that
\* ended without error exactly one snapshot file of the collection exists,
\* the newly written one.
C25_Original ==
  /\ [](pc = "done" => OldSnapshots(files, variant) = {NewFile(variant)})
  /\ [][files' # files =>
          /\ pc' = "done"
          /\ variant \in EVM => pc = "output"
          /\ variant = "solana" => startIdx >= Len(validData)]_vars

\* The ids of a list of groups, in order.
RECURSIVE Flatten(_)
Flatten(groups) ==
  IF groups = <<>> THEN <<>> ELSE Head(groups) \o Flatten(Tail(groups))

\* groups cuts ids into consecutive groups: every group but the last has
\* size ids, the last has between 1 and size.
GroupsOf(groups, ids, size) ==
  /\ Flatten(groups) = ids
  /\ \A k \in 1..Len(groups) :
        /\ k < Len(groups) => Len(groups[k]) = size
        /\ Len(groups[k]) \in 1..size

\* C26: the groups of the initial sweep are 1..TotalSupply cut into
\* consecutive groups of BATCH_SIZE, and the groups of a recheck pass are the
\* ids unresolved at its start cut into consecutive groups of the batch size
\* of the pass: every id is in exactly one group, every group but the last
\* is full and the last has between 1 and that many ids.
C26_GroupsPartition ==
  /\ pc = "sweep" =>
        GroupsOf(batches, [i \in 1..TotalSupply(variant) |-> i], BATCH_SIZE)
  /\ pc = "recheckBatch" =>
        /\ GroupsOf(batches, tokensArray, batchSize)
        /\ batchSize = RecheckBatchSize(BATCH_SIZE, pass)
        /\ Cardinality(Range(tokensArray)) = Len(tokensArray)
        /\ batchIdx = 1 =>
              /\ tokensArray = tokensToRecheck
              /\ Range(tokensArray) = TokenIds(variant) \ Resolved

C26_Witness ==
  /\ pc = "recheckBatch"
  /\ Len(batches) = 2
  /\ Len(batches[1]) = 5
  /\ Len(batches[2]) = 1
  /\ batchIdx = 2
  /\ Resolved # {}

\* The chains the run looks ids up on.
LookedUpOn == IF variant = "infinity" THEN {"ethereum"} ELSE EligibleChains

\* The ids of the groups 1..k of the current sweep.
GroupIds(k) == UNION {Range(batches[j]) : j \in 1..k}

\* The ids of the sweep under way: all ids in the initial sweep, the ids
\* unresolved at its start in a recheck pass.
SweepIds == IF pass = 0 THEN TokenIds(variant) ELSE Range(tokensArray)

\* The ids of the groups of the sweep that have been looked up.
LookedUp == IF pc = "passEnd" THEN SweepIds ELSE GroupIds(batchIdx - 1)

C27_Step ==
  /\ inFlight' > inFlight =>
        /\ inFlight = 0
        /\ pc = "group" /\ settled = {} /\ joined = <<>>
        /\ passesRun = pass
        /\ pass = 0 =>
              /\ GroupIds(batchIdx - 1) = Resolved \cup Unresolved
              /\ lookups = (batchIdx - 1) * Cardinality(EligibleChains)
        /\ pass >= 1 =>
              /\ Unresolved \subseteq Range(tokensArray)
              /\ Resolved \cup Range(tokensArray) = 1..MaxGroup
  /\ (batchIdx' # batchIdx \/ pass' # pass) =>
        /\ pc = "applied"
        /\ inFlight = 0
        /\ settled = Members
        /\ Range(batches[batchIdx]) \subseteq Resolved \cup Unresolved
  /\ pass' # pass =>
        /\ pass' = pass + 1
        /\ batchIdx = Len(batches)
        /\ GroupIds(Len(batches)) \subseteq Resolved \cup Unresolved

C28_Step ==
  (finalSnapshot' # finalSnapshot \/ tokensToRecheck' # tokensToRecheck
     \/ chainStats' # chainStats) =>
     /\ pc = "members" /\ pc' = "applied"
     /\ settled = Members
     /\ inFlight = 0
     /\ Len(joined') = Len(ChainOrder)
     /\ \A k \in 1..Len(joined') :
           /\ joined'[k].chainName = ChainOrder[k]
           /\ ~joined'[k].skipped =>
                 /\ Len(joined'[k].results) = Len(batches[batchIdx])
                 /\ \A i \in 1..Len(batches[batchIdx]) :
                       /\ joined'[k].results[i].tokenId = batches[batchIdx][i]
                       /\ <<ChainOrder[k], i>> \in settled

\* C28: the final map and the Unresolved Set are modified only after all
\* concurrent lookups of the current group, of all its members on all
\* chains, have been joined; nothing is written while a lookup of the group
\* is in flight, and the tie-break works on complete per-chain results.
C28_WritesAfterJoin == [][C28_Step]_vars

\* A group of two ids on two chains was joined and applied: one id was
\* written to the map and the other to the Unresolved Set.
C28_Witness ==
  /\ pc = "applied"
  /\ pass = 0
  /\ Cardinality(settled) = 4
  /\ inFlight = 0
  /\ Resolved # {}
  /\ Unresolved # {}

\* Every ownerOf call of the chain's group lookup threw.
GroupFails(c) == \A id \in Range(batches[batchIdx]) : memberResp[c][id] = Throw

\* C29: in recheck pass p a group lookup that fails is attempted again until
\* p attempts have been made, and a lookup that succeeds is attempted once.
C29_Original ==
  (pc = "applied" /\ pass >= 1) =>
     \A c \in EligibleChains :
        groupCalls[c] = IF GroupFails(c) THEN pass ELSE 1

C31_Step ==
  pc = "gate" =>
     \A c \in Calls :
        /\ held'[c] > held[c] =>
              /\ held[c] = 0 /\ held'[c] = 1
              /\ activeRequests' = activeRequests + 1
              /\ cpc[c] \in {"start", "polling", "backoff"}
              /\ cpc'[c] = "acquired"
        /\ (tries'[c] # tries[c]) <=> (held'[c] > held[c])
        /\ tries'[c] \in {tries[c], tries[c] + 1}
        /\ (cpc[c] = "request1" /\ cpc'[c] = "pause") =>
              /\ held[c] = 1 /\ held'[c] = 1
              /\ activeRequests' = activeRequests
        /\ (cpc[c] = "pause" /\ cpc'[c] # "pause") =>
              /\ cpc'[c] = "request2"
              /\ held[c] = 1 /\ held'[c] = 1
              /\ activeRequests' = activeRequests
              /\ tries'[c] = tries[c]
        /\ (cpc[c] = "request2" /\ cpc'[c] # "request2") =>
              /\ held[c] = 1 /\ held'[c] = 0
              /\ activeRequests' = activeRequests - 1

FirstSleep(kind, n) ==
  CASE kind \in {"429", "throw429", "throw"} -> n + 1
    [] kind = "noResult" -> n
    [] kind \in {"noActive", "badFormat"} -> 1

RecordsOn(c) ==
  Cardinality({id \in DOMAIN finalSnapshot : finalSnapshot[id].chain = c})

\* chainStats[ChainOrder[1]] + ... + chainStats[ChainOrder[i]]
RECURSIVE StatSum(_)
StatSum(i) == IF i = 0 THEN 0 ELSE chainStats[ChainOrder[i]] + StatSum(i - 1)

\* C33: in the Panda run every per-chain counter chainStats[c] equals the
\* number of records of the final map whose chain is c, and the counters
\* sum to the number of records of the final map; this holds after every
\* group, and so when the report is written.
C33_ChainStats ==
  variant = "panda" =>
     /\ \A c \in ChainNames : chainStats[c] = RecordsOn(c)
     /\ StatSum(Len(ChainOrder)) = Cardinality(DOMAIN finalSnapshot)

\* The report of a Panda run is written with records on both chains, one of
\* them found in a recheck pass.
C33_Witness ==
  /\ variant = "panda"
  /\ pc = "done"
  /\ passesRun >= 1
  /\ \A c \in ChainNames : chainStats[c] >= 1
  /\ Cardinality(DOMAIN finalSnapshot) = PandaSupply
  /\ Len(csvData) = PandaSupply

\* C34: in a Solana run whose batches are larger than maxConcurrent, when
\* every timer fires and every request is answered or times out, every
\* getNFTOwner call that waits in waitForSlot is admitted in the end, every
\* call returns in the end, and processEarningsCSV comes to its end.
\* A call leaves waitForSlot only by being admitted, so the call that
\* returns after waiting has been admitted.
C34_EventuallyAdmitted ==
  /\ [][\A c \in Calls :
          (cpc[c] = "polling" /\ cpc'[c] # "polling") =>
             (cpc'[c] = "acquired" /\ held'[c] = held[c] + 1)]_vars
  /\ \A c \in Calls : (cpc[c] \in {"start", "polling"}) ~> (cpc[c] = "returned")
  /\ <>(pc \in {"done", "failed"})

\* A batch of two calls runs on one slot: a call waits in waitForSlot for
\* its second attempt while the other call holds the slot.
C34_Witness ==
  /\ pc = "gate"
  /\ BatchLen > maxConcurrent
  /\ activeRequests = maxConcurrent
  /\ \E c \in Calls : cpc[c] = "polling" /\ attempt[c] >= 1
  /\ \E c \in Calls : held[c] = 1

C36_Original ==
  \A c \in Calls :
     cpc[c] \in {"backoff", "delay", "pause"} => held[c] = 0

\* The snapshot files of a collection in the working directory at the start.
SnapshotsOf(v) == {f \in Files0 : f = FileNamed(Prefix(v), f.rest, ".csv")}

\* The files of the working directory that are no snapshot of any collection.
NotSnapshots == Files0 \ UNION {SnapshotsOf(v) : v \in Variants}

\* C37: at every point of a run the snapshot files of the other two
\* collections and the files that are not snapshot CSVs are still in the
\* working directory: the cleanup deletes only snapshots of the run's own
\* collection.
C37_OwnCollectionOnly ==
  /\ NotSnapshots \subseteq files
  /\ \A v \in Variants \ {variant} : SnapshotsOf(v) \subseteq files

\* A run has come to its end and its cleanup has deleted the snapshot of an
\* earlier day of its own collection.
C37_Witness ==
  /\ pc = "done"
  /\ FileNamed(Prefix(variant), "1.1", ".csv") \notin files
  /\ NewFile(variant) \in files

\* Owners Found and Owners Not Found of the summary.
foundOwners(data) == Cardinality({i \in DOMAIN data : data[i].OwnerWallet # Null})
missingOwners(data) == Len(data) - foundOwners(data)

\* The positions of the input rows that have a token id, and the k-th of them.
Remaining == {i \in DOMAIN input.rows : input.rows[i].SolanaTokenId # ""}
RemainingAt(k) ==
  CHOOSE i \in Remaining : Cardinality({j \in Remaining : j <= i}) = k

\* C38: once the input is read, validData holds the input rows that have a
\* token id, in their order, and no other row; getNFTOwner is called at most
\* once for a row and its OwnerWallet is assigned at most once, with what
\* that call returned; and at the end every row has had exactly one call and
\* one assignment, the rows written are these rows, and found + missing is
\* their number.
C38_RowsProcessedOnce ==
  pc \in {"rows", "gate", "done"} =>
    /\ Len(validData) = Cardinality(Remaining)
    /\ \A k \in DOMAIN validData :
         /\ validData[k].SolanaTokenId # ""
         /\ validData[k].SolanaTokenId = input.rows[RemainingAt(k)].SolanaTokenId
         /\ validData[k].IntTokenId = input.rows[RemainingAt(k)].IntTokenId
         /\ rowCalls[k] <= 1
         /\ rowWrites[k] <= rowCalls[k]
         /\ rowWrites[k] = 0 => validData[k].OwnerWallet = Null
    /\ \A c \in Calls :
         cpc[c] = "assigned" =>
           /\ rowWrites[startIdx + c] = 1
           /\ validData[startIdx + c].OwnerWallet = returned[c]
    /\ pc = "done" =>
         /\ \A k \in DOMAIN validData : rowCalls[k] = 1 /\ rowWrites[k] = 1
         /\ csvData = validData
         /\ foundOwners(validData) + missingOwners(validData) = Cardinality(Remaining)
         /\ foundOwners(validData) \in 0..Len(validData)

\* A run has ended on an input with a blank row: the other rows were
\* processed, one with an owner found and one without.
C38_Witness ==
  /\ pc = "done"
  /\ Cardinality(Remaining) < Len(input.rows)
  /\ Len(validData) >= 2
  /\ foundOwners(validData) >= 1
  /\ missingOwners(validData) >= 1

\* C39: when the input file that was read is missing, has no rows or has no
\* SolanaTokenId column, processEarningsCSV has failed, and no request was
\* posted, no slot taken, no getNFTOwner call started and no file of the
\* working directory deleted or written.
C39_FailsBeforeAnyEffect ==
  (pc # "start"
     /\ (~input.exists \/ Len(input.rows) = 0 \/ ~input.hasColumn)) =>
    /\ pc = "failed"
    /\ files = Files0
    /\ csvData = <<>>
    /\ activeRequests = 0
    /\ inFlight = 0
    /\ lookups = 0
    /\ \A c \in Calls : cpc[c] = "idle" /\ tries[c] = 0 /\ held[c] = 0

\* The run has failed on a file that exists and has rows, but no
\* SolanaTokenId column.
C39_Witness ==
  /\ pc = "failed"
  /\ input.exists
  /\ Len(input.rows) > 0
  /\ ~input.hasColumn

\* C40: started with the same block and batch size and given the same
\* outcome of every ownerOf call, the standalone snapshotNFTs and
\* InfinitySnapshotter.snapshotNFTs have, after every round, looked up the
\* same sequence of groups and have the same group to look up next, and they
\* end together with the same final ownership map and the same found count.
C40_SameRun ==
  pc = "twin" =>
    /\ twin.standalone.issued = twin.unified.issued
    /\ twin.standalone.batches = twin.unified.batches
    /\ (twin.standalone.phase = "done") <=> (twin.unified.phase = "done")
    /\ twin.standalone.finalSnapshot = twin.unified.finalSnapshot
    /\ twin.standalone.totalFound = twin.unified.totalFound

\* Both runs have ended after three recheck passes, with tokens found in the
\* sweep and in a recheck pass and a token never found.
C40_Witness ==
  /\ pc = "twin"
  /\ twin.standalone.phase = "done"
  /\ twin.unified.phase = "done"
  /\ twin.unified.pass = MaxPass
  /\ twin.unified.tokensToRecheck # <<>>
  /\ twin.unified.totalFound >= 2
  /\ Len(twin.unified.issued) > Len(UnifiedCreateBatches(1, TotalSupply("infinity"), BATCH_SIZE)) + MaxPass

====
